---- MODULE Spec2Model ----
(***************************************************************************)
(* Lifecycle of a dine-in table session: Table, TableSession, Order and    *)
(* Bill documents in the entity store, and the HTTP handlers and socket    *)
(* events that read and write them.  Every handler is an async function:   *)
(* each `await` on the store is one atomic step, and handlers interleave   *)
(* between their awaits.  A mongoose document that was loaded by a handler *)
(* is a private snapshot; `doc.save()` writes back only the paths whose    *)
(* value differs from the loaded one.                                      *)
(***************************************************************************)
EXTENDS Integers, Sequences, FiniteSets, Bags, TLC

----------------------------------------------------------------------------
(* Bounds of the model *)

MaxInFlight == 2
MaxSessions == 2

----------------------------------------------------------------------------
(* Universe *)

Tables == {"T1", "T2"}
Users == {"U1"}
None == "none"
NoId == 0

TableStatuses == {"available", "occupied", "cleaning"}
SessionDefaultStatus == "active"
PaymentStatuses == {"pending", "paid", "failed"}

VARIABLES tables, sessions, orders, bills, reqs,
          cache, redisReady, emitted, deadCalls

vars == <<tables, sessions, orders, bills, reqs, cache, redisReady, emitted, deadCalls>>

\* The cache store, its connection, the event last emitted to a socket and
\* whether a command was ever sent to a cache store that was not connected.
cacheVars == <<cache, redisReady, emitted, deadCalls>>

----------------------------------------------------------------------------
(* Documents *)

NoTable == [status |-> None, isActive |-> FALSE, currentSession |-> NoId]

NoSession ==
  [id |-> NoId, table |-> None, tableId |-> None, clientId |-> None,
   status |-> None, endTime |-> 0, orders |-> <<>>]

NewSession(tableField, tableIdField, client) ==
  [table |-> tableField, tableId |-> tableIdField, clientId |-> client,
   status |-> SessionDefaultStatus, endTime |-> 0, orders |-> <<>>]

SessionIds == 1..Len(sessions)
OrderIds == 1..Len(orders)
BillIds == 1..Len(bills)

\* Table.findOne({ tableId }) / Table.findById(id): the stored document or null.
FindTable(t) == IF t \in Tables THEN tables[t] ELSE NoTable

\* TableSession.findById(id): the stored document (with its _id) or null.
FindSession(s) ==
  IF s \in SessionIds
    THEN [id |-> s, table |-> sessions[s].table, tableId |-> sessions[s].tableId,
          clientId |-> sessions[s].clientId, status |-> sessions[s].status,
          endTime |-> sessions[s].endTime, orders |-> sessions[s].orders]
    ELSE NoSession

\* Variant of the lookup that ignores the session's status.
FindAnySessionOf(u) ==
  IF {s \in SessionIds : sessions[s].clientId = u} = {} THEN NoId
  ELSE CHOOSE s \in SessionIds : sessions[s].clientId = u

\* TableSession.findOne({ clientId: userId, status: "active" }): id or NoId.
ActiveSessionsOf(u) ==
  {s \in SessionIds : sessions[s].clientId = u /\ sessions[s].status = "active"}

FindActiveSessionOf(u) ==
  IF ActiveSessionsOf(u) = {} THEN NoId
  ELSE CHOOSE s \in ActiveSessionsOf(u) : \A x \in ActiveSessionsOf(u) : s <= x

\* doc.save() of a loaded document: only the modified paths are written.
SaveTableDoc(stored, loaded, local) ==
  [stored EXCEPT
     !.status = IF local.status # loaded.status THEN local.status ELSE @,
     !.currentSession = IF local.currentSession # loaded.currentSession
                          THEN local.currentSession ELSE @]

\* session.status = s (and, when the handler sets it, endTime = new Date()),
\* then session.save(): status is written when it differs from the loaded
\* value, a fresh Date always is.
SaveSessionDoc(stored, loaded, newStatus, setsEndTime) ==
  [stored EXCEPT
     !.status = IF newStatus # loaded.status THEN newStatus ELSE @,
     !.endTime = IF setsEndTime THEN 1 ELSE @]

----------------------------------------------------------------------------
(* Requests in flight *)

\* What a read answers and what the cache holds under a key: the orders of the
\* view (each with the fields the claims look at) and, for the view of a
\* session, the session's status and endTime.
NoValue == [status |-> None, endTime |-> 0, orders |-> {}]

NoReq ==
  [op |-> None, pc |-> None, tableId |-> None, userId |-> None,
   sessionId |-> NoId, orderId |-> NoId, billId |-> NoId, status |-> None,
   table |-> NoTable, session |-> NoSession, total |-> 0,
   code |-> 0, respId |-> NoId, sessionUpdated |-> FALSE,
   prev |-> None, value |-> NoValue, socket |-> None, isActive |-> FALSE]

InFlight == BagToSet(reqs)

Begin(r) == reqs' = reqs (+) SetToBag({r})

Step(r, r2) == reqs' = (reqs (-) SetToBag({r})) (+) SetToBag({r2})

\* res.status(code).json(...) / socket.emit(...): the handler has answered and
\* its loaded documents are garbage.
Answer(r, code, id) ==
  [r EXCEPT !.pc = "done", !.code = code, !.respId = id,
            !.table = NoTable, !.session = NoSession, !.total = 0]

Done(r, code, id) == Step(r, Answer(r, code, id))

Quiescent == reqs = EmptyBag

RECURSIVE CountIn(_, _)
CountIn(S, b) ==
  IF S = {} THEN 0
  ELSE LET r == CHOOSE x \in S : TRUE
       IN  CopiesIn(r, b) + CountIn(S \ {r}, b)

\* Requests that will still create a document of a bounded collection.
PendingSessions ==
  CountIn({r \in InFlight : r.pc \in {"checkUser", "saveSession"}
                              /\ r.op \in {"initiate_session", "scan_qr_code",
                                           "startTableSession"}}, reqs)

\* Bounds of a specification: requests in flight, sessions and orders created.
Arrives(cap) == BagCardinality(reqs) < cap
CanCreateSession(max) == Len(sessions) + PendingSessions < max
CanCreateOrder(max) == Len(orders) < max

----------------------------------------------------------------------------
(* The cache store and its adapter (services/redis.service.js) *)

KitchenSockets == {"K1", "K2"}

KITCHEN_SOCKET_KEY == "kitchen:socket_id"
KITCHEN_ORDERS_CACHE == "kitchen:active_orders"
COMPLETED_ORDERS_CACHE == "kitchen:completed_orders"
ORDER_DETAILS_CACHE_PREFIX == "order:details:"
USER_ORDERS_CACHE_PREFIX == "order:user:"
SESSION_ORDERS_CACHE_PREFIX == "order:session:"

OrderDetailsKey(o) == ORDER_DETAILS_CACHE_PREFIX \o ToString(o)
UserOrdersKey(u) == USER_ORDERS_CACHE_PREFIX \o u
SessionOrdersKey(s) == SESSION_ORDERS_CACHE_PREFIX \o ToString(s)

\* redisService.isConnected()
IsConnected == redisReady

\* Variant of the adapter that sends its commands without a connection too.
AdapterSends_Always == TRUE

\* The adapter passes a command on to the store only while it is connected.
AdapterSends == redisReady

\* A call of the adapter: records a command sent without a connection.
AdapterCalled == deadCalls' = (deadCalls \/ (AdapterSends /\ ~redisReady))

\* getCache(key) / getValue(key) answers a value (not null).
CacheHit(key) == AdapterSends /\ redisReady /\ key \in DOMAIN cache

CacheWith(key, value) ==
  [k \in DOMAIN cache \cup {key} |-> IF k = key THEN value ELSE cache[k]]

CacheWithout(keys) == [k \in DOMAIN cache \ keys |-> cache[k]]

\* await getCache(key) / getValue(key)
GetCache(key) == AdapterCalled /\ UNCHANGED cache

\* await setCache(key, value, ttl) / setValue(key, value)
SetCache(key, value) ==
  /\ AdapterCalled
  /\ cache' = IF AdapterSends /\ redisReady THEN CacheWith(key, value) ELSE cache

\* await deleteCache(key), for each key of `keys`
DeleteCache(keys) ==
  /\ AdapterCalled
  /\ cache' = IF AdapterSends /\ redisReady THEN CacheWithout(keys) ELSE cache

\* The connection to the cache store is lost or comes back; the store keeps
\* its entries meanwhile.
RedisConnectionChange ==
  /\ redisReady' = ~redisReady
  /\ UNCHANGED <<tables, sessions, orders, bills, reqs, cache, emitted, deadCalls>>

----------------------------------------------------------------------------
(* Session start over the socket: initiate_session and scan_qr_code *)

SocketStartOps == {"initiate_session", "scan_qr_code"}

\* Table.findOne, the isActive / status checks and User.findById.
SocketStart_Validate(op, t, u) ==
  /\ op \in SocketStartOps
  /\ LET table == FindTable(t)
         r == [NoReq EXCEPT !.op = op, !.tableId = t, !.userId = u,
                            !.table = table]
     IN  IF table = NoTable \/ ~table.isActive \/ table.status # "available"
              \/ u \notin Users
           THEN Begin(Answer(r, 400, NoId))
           ELSE Begin([r EXCEPT !.pc = "checkUser"])
  /\ UNCHANGED <<tables, sessions, orders, bills>>
  /\ UNCHANGED cacheVars

\* TableSession.findOne({ clientId: userId, status: "active" }).
SocketStart_CheckUser(r) ==
  /\ r.op \in SocketStartOps /\ r.pc = "checkUser"
  /\ LET existing == FindActiveSessionOf(r.userId)
     IN  IF existing # NoId
           THEN Done(r, 409, existing)
           ELSE Step(r, [r EXCEPT !.pc = "saveSession"])
  /\ UNCHANGED <<tables, sessions, orders, bills>>
  /\ UNCHANGED cacheVars

\* new TableSession({ tableId, clientId, status: "active" }); session.save().
SocketStart_SaveSession(r) ==
  /\ r.op \in SocketStartOps /\ r.pc = "saveSession"
  /\ sessions' = Append(sessions, NewSession(None, r.tableId, r.userId))
  /\ Step(r, [r EXCEPT !.pc = "saveTable", !.sessionId = Len(sessions) + 1])
  /\ UNCHANGED <<tables, orders, bills>>
  /\ UNCHANGED cacheVars

\* Variant of the table update that sets the status only.
StartedTable_StatusOnly(r) == [r.table EXCEPT !.status = "occupied"]

\* table.status = "occupied"; table.currentSession = session._id; table.save().
StartedTable(r) == [r.table EXCEPT !.status = "occupied", !.currentSession = r.sessionId]

SocketStart_SaveTable(r) ==
  /\ r.op \in SocketStartOps /\ r.pc = "saveTable"
  /\ tables' = [tables EXCEPT
                  ![r.tableId] = SaveTableDoc(@, r.table, StartedTable(r))]
  /\ Done(r, 200, r.sessionId)
  /\ UNCHANGED <<sessions, orders, bills>>
  /\ UNCHANGED cacheVars

----------------------------------------------------------------------------
(* createOrUpdateTable with a table id: the table is updated *)

\* Table.findById(tableId); table.isActive = isActive.
createOrUpdateTable_Read(t, isActive) ==
  /\ LET table == FindTable(t)
         r == [NoReq EXCEPT !.op = "createOrUpdateTable", !.tableId = t,
                            !.table = table, !.isActive = isActive]
     IN  IF table = NoTable THEN Begin(Answer(r, 404, NoId))
         ELSE Begin([r EXCEPT !.pc = "saveTable"])
  /\ UNCHANGED <<tables, sessions, orders, bills>>
  /\ UNCHANGED cacheVars

\* table.save(): isActive is written when it differs from the loaded value.
createOrUpdateTable_Save(r) ==
  /\ r.op = "createOrUpdateTable" /\ r.pc = "saveTable"
  /\ tables' = [tables EXCEPT
                  ![r.tableId].isActive =
                     IF r.isActive # r.table.isActive THEN r.isActive ELSE @]
  /\ Done(r, 200, NoId)
  /\ UNCHANGED <<sessions, orders, bills>>
  /\ UNCHANGED cacheVars

----------------------------------------------------------------------------
(* startTableSession (HTTP) *)

startTableSession_Validate(t) ==
  /\ LET table == FindTable(t)
         r == [NoReq EXCEPT !.op = "startTableSession", !.tableId = t,
                            !.table = table]
     IN  IF table = NoTable THEN Begin(Answer(r, 404, NoId))
         ELSE IF ~table.isActive \/ table.status # "available"
           THEN Begin(Answer(r, 400, NoId))
           ELSE Begin([r EXCEPT !.pc = "saveSession"])
  /\ UNCHANGED <<tables, sessions, orders, bills>>
  /\ UNCHANGED cacheVars

\* new TableSession({ table: tableId, startTime }); session.save().
startTableSession_SaveSession(r) ==
  /\ r.op = "startTableSession" /\ r.pc = "saveSession"
  /\ sessions' = Append(sessions, NewSession(r.tableId, None, None))
  /\ Step(r, [r EXCEPT !.pc = "saveTable", !.sessionId = Len(sessions) + 1])
  /\ UNCHANGED <<tables, orders, bills>>
  /\ UNCHANGED cacheVars

startTableSession_SaveTable(r) ==
  /\ r.op = "startTableSession" /\ r.pc = "saveTable"
  /\ tables' = [tables EXCEPT
                  ![r.tableId] = SaveTableDoc(@, r.table, StartedTable(r))]
  /\ Done(r, 201, r.sessionId)
  /\ UNCHANGED <<sessions, orders, bills>>
  /\ UNCHANGED cacheVars

----------------------------------------------------------------------------
(* updateTableStatus (HTTP) *)

\* if (table.currentSession && status === "available")
EndsCurrentSession(r) == r.table.currentSession # NoId /\ r.status = "available"

updateTableStatus_Read(t, status) ==
  /\ status \in TableStatuses
  /\ LET table == FindTable(t)
         r == [NoReq EXCEPT !.op = "updateTableStatus", !.tableId = t,
                            !.status = status, !.table = table]
     IN  IF table = NoTable THEN Begin(Answer(r, 404, NoId))
         ELSE IF EndsCurrentSession(r)
           THEN Begin([r EXCEPT !.pc = "endSession"])
           ELSE Begin([r EXCEPT !.pc = "saveTable"])
  /\ UNCHANGED <<tables, sessions, orders, bills>>
  /\ UNCHANGED cacheVars

\* TableSession.findByIdAndUpdate(table.currentSession,
\*                                { status: "completed", endTime: new Date() })
updateTableStatus_EndSession(r) ==
  /\ r.op = "updateTableStatus" /\ r.pc = "endSession"
  /\ sessions' = IF r.table.currentSession \in SessionIds
                   THEN [sessions EXCEPT
                           ![r.table.currentSession].status = "completed",
                           ![r.table.currentSession].endTime = 1]
                   ELSE sessions
  /\ Step(r, [r EXCEPT !.pc = "saveTable"])
  /\ UNCHANGED <<tables, orders, bills>>
  /\ UNCHANGED cacheVars

\* (table.currentSession = null;) table.status = status; table.save().
UpdatedTable(r) ==
  [r.table EXCEPT !.status = r.status,
                  !.currentSession = IF EndsCurrentSession(r) THEN NoId ELSE @]

updateTableStatus_SaveTable(r) ==
  /\ r.op = "updateTableStatus" /\ r.pc = "saveTable"
  /\ tables' = [tables EXCEPT
                  ![r.tableId] = SaveTableDoc(@, r.table, UpdatedTable(r))]
  /\ Done(r, 200, NoId)
  /\ UNCHANGED <<sessions, orders, bills>>
  /\ UNCHANGED cacheVars

----------------------------------------------------------------------------
(* endTableSession (HTTP) *)

endTableSession_Read(s) ==
  /\ LET session == FindSession(s)
         r == [NoReq EXCEPT !.op = "endTableSession", !.sessionId = s,
                            !.session = session]
     IN  IF session = NoSession THEN Begin(Answer(r, 404, NoId))
         ELSE IF session.status # "active"
           THEN Begin(Answer(r, 400, NoId))
           ELSE Begin([r EXCEPT !.pc = "saveSession"])
  /\ UNCHANGED <<tables, sessions, orders, bills>>
  /\ UNCHANGED cacheVars

\* session.status = "completed"; session.endTime = new Date(); session.save().
endTableSession_SaveSession(r) ==
  /\ r.op = "endTableSession" /\ r.pc = "saveSession"
  /\ sessions' = [sessions EXCEPT
                    ![r.sessionId] = SaveSessionDoc(@, r.session, "completed", TRUE)]
  /\ Step(r, [r EXCEPT !.pc = "readTable"])
  /\ UNCHANGED <<tables, orders, bills>>
  /\ UNCHANGED cacheVars

\* Table.findById(session.table)
endTableSession_ReadTable(r) ==
  /\ r.op = "endTableSession" /\ r.pc = "readTable"
  /\ LET table == FindTable(r.session.table)
     IN  IF table = NoTable
           THEN Done(r, 200, r.sessionId)
           ELSE Step(r, [r EXCEPT !.pc = "saveTable", !.tableId = r.session.table,
                                  !.table = table])
  /\ UNCHANGED <<tables, sessions, orders, bills>>
  /\ UNCHANGED cacheVars

\* table.status = "cleaning"; table.currentSession = null; table.save().
CleanedTable(r) == [r.table EXCEPT !.status = "cleaning", !.currentSession = NoId]

endTableSession_SaveTable(r) ==
  /\ r.op = "endTableSession" /\ r.pc = "saveTable"
  /\ tables' = [tables EXCEPT
                  ![r.tableId] = SaveTableDoc(@, r.table, CleanedTable(r))]
  /\ Done(r, 200, r.sessionId)
  /\ UNCHANGED <<sessions, orders, bills>>
  /\ UNCHANGED cacheVars

----------------------------------------------------------------------------
(* Orders.  Money is counted in units of 0.50. *)

MenuItems == {"M1", "M2", "M3"}
Menu ==
  [m \in MenuItems |->
     IF m = "M1" THEN [price |-> 10, isAvailable |-> TRUE]
     ELSE IF m = "M2" THEN [price |-> 7, isAvailable |-> TRUE]
     ELSE [price |-> 5, isAvailable |-> FALSE]]

OrderTypes == {"Take Away", "Delivery", "Dine In"}

\* order.model.js: enum of `status`
OrderStatusEnum == {"pending", "confirmed", "preparing", "cancelled", "ready_for_pickup"}

\* const activeStatuses = [...]; const completedStatuses = [...]
ActiveStatuses == {"pending", "confirmed", "preparing"}
CompletedStatuses == {"ready_for_pickup", "completed", "cancelled"}

\* TableSession.findOne({ orders: orderId })
SessionsWithOrder(o) ==
  {s \in SessionIds : \E i \in 1..Len(sessions[s].orders) : sessions[s].orders[i] = o}

FindSessionOfOrder(o) ==
  IF SessionsWithOrder(o) = {} THEN NoSession
  ELSE FindSession(CHOOSE s \in SessionsWithOrder(o) :
                     \A x \in SessionsWithOrder(o) : s <= x)

\* Variant that addresses every kitchen event to the first socket.
KitchenEvent_ToFirst(socket, event, o, status, previous) ==
  [to |-> "K1", event |-> event, orderId |-> o, status |-> status,
   previousStatus |-> previous]

\* io.to(kitchenSocketId).emit(event, { id, status, previousStatus })
KitchenEvent(socket, event, o, status, previous) ==
  [to |-> socket, event |-> event, orderId |-> o, status |-> status,
   previousStatus |-> previous]

\* req.io.to(`table_${tableId}`).emit(event, { orderId, status })
TableEvent(t, event, o, status) ==
  [to |-> "table_" \o t, event |-> event, orderId |-> o, status |-> status,
   previousStatus |-> None]

\* An order as a read returns it and as the cache keeps it.
OrderView(o) ==
  [id |-> o, status |-> orders[o].status, paymentStatus |-> orders[o].paymentStatus,
   total |-> orders[o].total]

\* const total = itemPrice * quantity
OrderItem(item) ==
  [menuItem |-> item.menuItemId, price |-> Menu[item.menuItemId].price,
   quantity |-> item.quantity,
   total |-> Menu[item.menuItemId].price * item.quantity]

RECURSIVE SumItemTotals(_)
SumItemTotals(items) ==
  IF items = <<>> THEN 0
  ELSE OrderItem(Head(items)).total + SumItemTotals(Tail(items))

\* Variant that charges the delivery fee on every order.
DeliveryFee_Always(orderType) == 4

\* const deliveryFee = orderType === "Delivery" ? 2.0 : 0
DeliveryFee(orderType) == IF orderType = "Delivery" THEN 4 ELSE 0

NewOrder(u, items, orderType) ==
  [user |-> u,
   items |-> [i \in 1..Len(items) |-> OrderItem(items[i])],
   subtotal |-> SumItemTotals(items),
   deliveryFee |-> DeliveryFee(orderType),
   total |-> SumItemTotals(items) + DeliveryFee(orderType),
   orderType |-> orderType, status |-> "pending", paymentStatus |-> "pending"]

\* The loop over the items: the answer of the first item that is rejected
\* (400 without id or quantity, 404 for an unknown menu item, 400 for an
\* unavailable one), 0 when every item passes.
RECURSIVE ItemRejection(_, _)
ItemRejection(items, i) ==
  IF i > Len(items) THEN 0
  ELSE IF items[i].menuItemId = None \/ items[i].quantity = 0 THEN 400
  ELSE IF items[i].menuItemId \notin MenuItems THEN 404
  ELSE IF ~Menu[items[i].menuItemId].isAvailable THEN 400
  ELSE ItemRejection(items, i + 1)

\* The checks of createOrder in the order of the code: 0 when the order is
\* accepted for saving.
createOrder_Rejection(u, items, orderType, t) ==
  IF Len(items) = 0 \/ orderType = None THEN 400
  ELSE IF orderType = "Dine In" /\ t = None THEN 400
  ELSE IF u # None /\ u \notin Users THEN 404
  ELSE ItemRejection(items, 1)

\* Validation and order.save(): users and menu items are only read here.
createOrder_SaveOrder(u, items, orderType, t, s) ==
  /\ LET r == [NoReq EXCEPT !.op = "createOrder", !.userId = u, !.tableId = t,
                            !.sessionId = s, !.orderId = Len(orders) + 1]
         rejection == createOrder_Rejection(u, items, orderType, t)
     IN  IF rejection # 0
           THEN /\ Begin(Answer([r EXCEPT !.orderId = NoId], rejection, NoId))
                /\ UNCHANGED orders
           ELSE /\ orders' = Append(orders, NewOrder(u, items, orderType))
                /\ IF s # NoId
                     THEN Begin([r EXCEPT !.pc = "findSession"])
                     ELSE Begin([r EXCEPT !.pc = "notify"])
  /\ UNCHANGED <<tables, sessions, bills>>
  /\ UNCHANGED cacheVars

\* TableSession.findById(sessionId)
createOrder_FindSession(r) ==
  /\ r.op = "createOrder" /\ r.pc = "findSession"
  /\ LET session == FindSession(r.sessionId)
     IN  IF session = NoSession
           THEN Done(r, 404, NoId)
           ELSE Step(r, [r EXCEPT !.pc = "pushOrder", !.session = session])
  /\ UNCHANGED <<tables, sessions, orders, bills>>
  /\ UNCHANGED cacheVars

\* Variant of the save that writes the loaded array back with the new id.
PushedOrders_Overwrite(stored, loaded, o) == Append(loaded, o)

\* session.orders.push(order._id); session.save(): the save sends a $push of
\* the new id, applied to the stored array.
PushedOrders(stored, loaded, o) == Append(stored, o)

createOrder_PushOrder(r) ==
  /\ r.op = "createOrder" /\ r.pc = "pushOrder"
  /\ sessions' = [sessions EXCEPT
                    ![r.sessionId].orders = PushedOrders(@, r.session.orders, r.orderId)]
  /\ emitted' = IF r.tableId # None
                  THEN {TableEvent(r.tableId, "new_order", r.orderId,
                                                orders[r.orderId].status)}
                  ELSE emitted
  /\ Step(r, [r EXCEPT !.pc = "notify", !.session = NoSession])
  /\ UNCHANGED <<tables, orders, bills, cache, redisReady, deadCalls>>

\* notifyKitchenAboutNewOrder: getValue(KITCHEN_SOCKET_KEY), then the emission
\* to the registered kitchen socket.
createOrder_Notify(r) ==
  /\ r.op = "createOrder" /\ r.pc = "notify"
  /\ IF orders[r.orderId].status \notin ActiveStatuses
       THEN /\ Done(r, 201, r.orderId)
            /\ UNCHANGED <<cache, emitted, deadCalls>>
       ELSE /\ GetCache(KITCHEN_SOCKET_KEY)
            /\ IF CacheHit(KITCHEN_SOCKET_KEY)
                 THEN /\ emitted' =
                           {KitchenEvent(cache[KITCHEN_SOCKET_KEY], "new_kitchen_order",
                                         r.orderId, orders[r.orderId].status, None)}
                      /\ Step(r, [r EXCEPT !.pc = "notifyDelete"])
                 ELSE /\ UNCHANGED emitted
                      /\ Done(r, 201, r.orderId)
  /\ UNCHANGED <<tables, sessions, orders, bills, redisReady>>

\* notifyKitchenAboutNewOrder: deleteCache(KITCHEN_ORDERS_CACHE) after the
\* emission.
createOrder_NotifyDelete(r) ==
  /\ r.op = "createOrder" /\ r.pc = "notifyDelete"
  /\ DeleteCache({KITCHEN_ORDERS_CACHE})
  /\ Done(r, 201, r.orderId)
  /\ UNCHANGED <<tables, sessions, orders, bills, redisReady, emitted>>

----------------------------------------------------------------------------
(* updateOrderStatus (HTTP) *)

\* Variant that never takes the order's status for the requested one.
StatusAlreadySet_Never(order, status) == FALSE

\* if (previousStatus === status)
StatusAlreadySet(order, status) == order.status = status

updateOrderStatus_Read(o, status) ==
  /\ LET r == [NoReq EXCEPT !.op = "updateOrderStatus", !.orderId = o,
                            !.status = status]
     IN  IF o \notin OrderIds THEN Begin(Answer(r, 404, NoId))
         ELSE IF StatusAlreadySet(orders[o], status) THEN Begin(Answer(r, 200, o))
         ELSE Begin([r EXCEPT !.pc = "saveOrder", !.prev = orders[o].status])
  /\ UNCHANGED <<tables, sessions, orders, bills>>
  /\ UNCHANGED cacheVars

\* Variant in which a save that writes nothing does not stop the handler.
SaveRejected_Silently(status) == FALSE

\* order.save() throws when the schema's enum does not hold the status; the
\* handler's catch then passes the error on and nothing after the save runs.
SaveRejected(status) == status \notin OrderStatusEnum

\* order.status = status; order.save()
updateOrderStatus_SaveOrder(r) ==
  /\ r.op = "updateOrderStatus" /\ r.pc = "saveOrder"
  /\ orders' = IF r.status \in OrderStatusEnum
                 THEN [orders EXCEPT ![r.orderId].status = r.status]
                 ELSE orders
  /\ IF SaveRejected(r.status)
       THEN Done(r, 500, NoId)
       ELSE Step(r, [r EXCEPT !.pc = "notify"])
  /\ UNCHANGED <<tables, sessions, bills>>
  /\ UNCHANGED cacheVars

\* Variant that answers an error when the cache keys were not deleted.
TransitionAnswer_Strict(invalidated) == IF invalidated THEN 200 ELSE 500

\* res.status(200) after the notification and the invalidation, whose
\* results the handler does not look at.
TransitionAnswer(invalidated) == 200

\* const kitchenRelevantStatuses = [...]
KitchenRelevantStatuses ==
  {"pending", "confirmed", "preparing", "ready_for_pickup", "completed", "cancelled"}

\* notifyKitchenAboutOrderUpdate: getValue(KITCHEN_SOCKET_KEY), then the
\* emission of order_status_updated to the registered kitchen socket.
updateOrderStatus_Notify(r) ==
  /\ r.op = "updateOrderStatus" /\ r.pc = "notify"
  /\ IF r.prev \notin KitchenRelevantStatuses /\ r.status \notin KitchenRelevantStatuses
       THEN /\ Step(r, [r EXCEPT !.pc = "invalidate"])
            /\ UNCHANGED <<cache, emitted, deadCalls>>
       ELSE /\ GetCache(KITCHEN_SOCKET_KEY)
            /\ IF CacheHit(KITCHEN_SOCKET_KEY)
                 THEN /\ emitted' =
                           {KitchenEvent(cache[KITCHEN_SOCKET_KEY], "order_status_updated",
                                         r.orderId, r.status, r.prev)}
                      /\ Step(r, [r EXCEPT !.pc = "notifyDelete"])
                 ELSE /\ UNCHANGED emitted
                      /\ Step(r, [r EXCEPT !.pc = "invalidate"])
  /\ UNCHANGED <<tables, sessions, orders, bills, redisReady>>

\* notifyKitchenAboutOrderUpdate: deleteCache(KITCHEN_ORDERS_CACHE) after the
\* emission.
updateOrderStatus_NotifyDelete(r) ==
  /\ r.op = "updateOrderStatus" /\ r.pc = "notifyDelete"
  /\ DeleteCache({KITCHEN_ORDERS_CACHE})
  /\ Step(r, [r EXCEPT !.pc = "invalidate"])
  /\ UNCHANGED <<tables, sessions, orders, bills, redisReady, emitted>>

\* if (redisService.isConnected()): the order-details key and, when the order
\* has a user, the user-orders key.
updateOrderStatus_Invalidate(r) ==
  /\ r.op = "updateOrderStatus" /\ r.pc = "invalidate"
  /\ IF IsConnected
       THEN /\ DeleteCache({OrderDetailsKey(r.orderId)} \cup
                           (IF orders[r.orderId].user # None
                              THEN {UserOrdersKey(orders[r.orderId].user)} ELSE {}))
            /\ Step(r, [r EXCEPT !.pc = "invalidateSession"])
       ELSE /\ UNCHANGED <<cache, deadCalls>>
            /\ Done(r, TransitionAnswer(FALSE), r.orderId)
  /\ UNCHANGED <<tables, sessions, orders, bills, redisReady, emitted>>

\* Variant that drops the active aggregate only.
KitchenKeysFor_ActiveOnly(previous, status) == {KITCHEN_ORDERS_CACHE}

\* The kitchen aggregates to drop for a change from `previous` to `status`.
KitchenKeysFor(previous, status) ==
  IF \/ (previous \in ActiveStatuses /\ status \in CompletedStatuses)
     \/ (previous \in CompletedStatuses /\ status \in ActiveStatuses)
    THEN {KITCHEN_ORDERS_CACHE, COMPLETED_ORDERS_CACHE}
  ELSE IF previous \in ActiveStatuses /\ status \in ActiveStatuses
    THEN {KITCHEN_ORDERS_CACHE}
  ELSE IF previous \in CompletedStatuses /\ status \in CompletedStatuses
    THEN {COMPLETED_ORDERS_CACHE}
  ELSE {}

\* TableSession.findOne({ orders: orderId }), the session-orders key and the
\* kitchen aggregates.
updateOrderStatus_InvalidateSession(r) ==
  /\ r.op = "updateOrderStatus" /\ r.pc = "invalidateSession"
  /\ LET session == FindSessionOfOrder(r.orderId)
     IN  DeleteCache((IF session # NoSession THEN {SessionOrdersKey(session.id)} ELSE {})
                     \cup KitchenKeysFor(r.prev, r.status))
  /\ Done(r, TransitionAnswer(AdapterSends /\ redisReady), r.orderId)
  /\ UNCHANGED <<tables, sessions, orders, bills, redisReady, emitted>>

----------------------------------------------------------------------------
(* updatePaymentStatus (HTTP) and its cascade *)

\* Order.countDocuments({ _id: { $in: session.orders }, paymentStatus: { $ne: "paid" } })
UnpaidOrders(orderIds) ==
  Cardinality({o \in OrderIds :
                 /\ \E i \in 1..Len(orderIds) : orderIds[i] = o
                 /\ orders[o].paymentStatus # "paid"})

\* if (session && session.status === "payment_pending")
PaymentCascadeApplies(session) ==
  session # NoSession /\ session.status = "payment_pending"

updatePaymentStatus_Read(o, paymentStatus) ==
  /\ paymentStatus \in PaymentStatuses
  /\ LET r == [NoReq EXCEPT !.op = "updatePaymentStatus", !.orderId = o,
                            !.status = paymentStatus]
     IN  IF o \notin OrderIds THEN Begin(Answer(r, 404, NoId))
         ELSE Begin([r EXCEPT !.pc = "saveOrder"])
  /\ UNCHANGED <<tables, sessions, orders, bills>>
  /\ UNCHANGED cacheVars

\* order.paymentStatus = paymentStatus; order.save()
updatePaymentStatus_SaveOrder(r) ==
  /\ r.op = "updatePaymentStatus" /\ r.pc = "saveOrder"
  /\ orders' = [orders EXCEPT ![r.orderId].paymentStatus = r.status]
  /\ Step(r, [r EXCEPT !.pc = "findSession"])
  /\ UNCHANGED <<tables, sessions, bills>>
  /\ UNCHANGED cacheVars

updatePaymentStatus_FindSession(r) ==
  /\ r.op = "updatePaymentStatus" /\ r.pc = "findSession"
  /\ LET session == FindSessionOfOrder(r.orderId)
     IN  IF PaymentCascadeApplies(session)
           THEN Step(r, [r EXCEPT !.pc = "countUnpaid", !.session = session])
           ELSE Step(r, [r EXCEPT !.pc = "invalidate", !.session = session])
  /\ UNCHANGED <<tables, sessions, orders, bills>>
  /\ UNCHANGED cacheVars

\* if (unpaidOrders === 0)
updatePaymentStatus_CountUnpaid(r) ==
  /\ r.op = "updatePaymentStatus" /\ r.pc = "countUnpaid"
  /\ IF UnpaidOrders(r.session.orders) = 0
       THEN Step(r, [r EXCEPT !.pc = "saveSession"])
       ELSE Step(r, [r EXCEPT !.pc = "invalidate"])
  /\ UNCHANGED <<tables, sessions, orders, bills>>
  /\ UNCHANGED cacheVars

\* session.status = "closed"; session.endTime = new Date(); session.save();
\* sessionUpdated = true
updatePaymentStatus_SaveSession(r) ==
  /\ r.op = "updatePaymentStatus" /\ r.pc = "saveSession"
  /\ sessions' = [sessions EXCEPT
                    ![r.session.id] = SaveSessionDoc(@, r.session, "closed", TRUE)]
  /\ Step(r, [r EXCEPT !.pc = "readTable", !.sessionUpdated = TRUE])
  /\ UNCHANGED <<tables, orders, bills>>
  /\ UNCHANGED cacheVars

\* Table.findById(session.tableId)
updatePaymentStatus_ReadTable(r) ==
  /\ r.op = "updatePaymentStatus" /\ r.pc = "readTable"
  /\ LET table == FindTable(r.session.tableId)
     IN  IF table = NoTable
           THEN Step(r, [r EXCEPT !.pc = "invalidate"])
           ELSE Step(r, [r EXCEPT !.pc = "saveTable", !.tableId = r.session.tableId,
                                  !.table = table])
  /\ UNCHANGED <<tables, sessions, orders, bills>>
  /\ UNCHANGED cacheVars

\* Variant that releases the table as available instead of cleaning.
PaidTable_Available(r) == [r.table EXCEPT !.status = "available", !.currentSession = NoId]

\* table.status = "cleaning"; table.currentSession = null; table.save()
PaidTable(r) == [r.table EXCEPT !.status = "cleaning", !.currentSession = NoId]

updatePaymentStatus_SaveTable(r) ==
  /\ r.op = "updatePaymentStatus" /\ r.pc = "saveTable"
  /\ tables' = [tables EXCEPT
                  ![r.tableId] = SaveTableDoc(@, r.table, PaidTable(r))]
  /\ Step(r, [r EXCEPT !.pc = "invalidate", !.table = NoTable])
  /\ UNCHANGED <<sessions, orders, bills>>
  /\ UNCHANGED cacheVars

\* if (redisService.isConnected()): the order-details key, the user-orders key
\* when the order has a user, the session-orders key when a session holds the
\* order.
updatePaymentStatus_Invalidate(r) ==
  /\ r.op = "updatePaymentStatus" /\ r.pc = "invalidate"
  /\ IF IsConnected
       THEN DeleteCache({OrderDetailsKey(r.orderId)}
                        \cup (IF orders[r.orderId].user # None
                                THEN {UserOrdersKey(orders[r.orderId].user)} ELSE {})
                        \cup (IF r.session # NoSession
                                THEN {SessionOrdersKey(r.session.id)} ELSE {}))
       ELSE UNCHANGED <<cache, deadCalls>>
  /\ Done(r, TransitionAnswer(IsConnected /\ AdapterSends), r.orderId)
  /\ UNCHANGED <<tables, sessions, orders, bills, redisReady, emitted>>

----------------------------------------------------------------------------
(* Reads through the cache: getOrderDetails, getOrdersByUser,
   getOrdersBySession, getKitchenOrders, getCompletedKitchenOrders *)

CachedReads ==
  {"getOrderDetails", "getOrdersByUser", "getOrdersBySession",
   "getKitchenOrders", "getCompletedKitchenOrders"}

\* The handlers that test redisService.isConnected() before they use the
\* cache; the two kitchen reads call getCache / setCache directly.
ChecksConnection(op) ==
  op \in {"getOrderDetails", "getOrdersByUser", "getOrdersBySession"}

\* const cacheKey = ...
CacheKeyOf(r) ==
  CASE r.op = "getOrderDetails" -> OrderDetailsKey(r.orderId)
    [] r.op = "getOrdersByUser" ->
         IF r.status # None THEN UserOrdersKey(r.userId) \o ":status:" \o r.status
                            ELSE UserOrdersKey(r.userId)
    [] r.op = "getOrdersBySession" -> SessionOrdersKey(r.sessionId)
    [] r.op = "getKitchenOrders" -> KITCHEN_ORDERS_CACHE
    [] r.op = "getCompletedKitchenOrders" -> COMPLETED_ORDERS_CACHE

OrderViews(ids) == {OrderView(o) : o \in ids}

\* The store has what the read asks for (otherwise the handler answers 404).
FoundInStore(r) ==
  CASE r.op = "getOrderDetails" -> r.orderId \in OrderIds
    [] r.op = "getOrdersBySession" -> r.sessionId \in SessionIds
    [] OTHER -> TRUE

\* Order.findById / Order.find(query) / TableSession.findById and Order.find:
\* the view the handler builds from the store.
LoadFromStore(r) ==
  CASE r.op = "getOrderDetails" ->
         [NoValue EXCEPT !.orders = OrderViews({r.orderId})]
    [] r.op = "getOrdersByUser" ->
         [NoValue EXCEPT !.orders =
            OrderViews({o \in OrderIds :
                          /\ orders[o].user = r.userId
                          /\ (r.status # None => orders[o].status = r.status)})]
    [] r.op = "getOrdersBySession" ->
         [status |-> sessions[r.sessionId].status,
          endTime |-> sessions[r.sessionId].endTime,
          orders |-> OrderViews({o \in OrderIds :
                        \E i \in 1..Len(sessions[r.sessionId].orders) :
                          sessions[r.sessionId].orders[i] = o})]
    [] r.op = "getKitchenOrders" ->
         [NoValue EXCEPT !.orders =
            OrderViews({o \in OrderIds : orders[o].status \in ActiveStatuses})]
    [] r.op = "getCompletedKitchenOrders" ->
         [NoValue EXCEPT !.orders =
            OrderViews({o \in OrderIds : orders[o].status \in CompletedStatuses})]

\* The request and its cache lookup: a hit is answered from the cache.
CachedRead_Lookup(op, o, u, s, status) ==
  /\ op \in CachedReads
  /\ LET r == [NoReq EXCEPT !.op = op, !.orderId = o, !.userId = u,
                            !.sessionId = s, !.status = status]
     IN  IF ChecksConnection(op) /\ ~IsConnected
           THEN /\ Begin([r EXCEPT !.pc = "readStore"])
                /\ UNCHANGED <<cache, deadCalls>>
           ELSE /\ GetCache(CacheKeyOf(r))
                /\ IF CacheHit(CacheKeyOf(r))
                     THEN Begin([Answer(r, 200, NoId) EXCEPT
                                   !.value = cache[CacheKeyOf(r)]])
                     ELSE Begin([r EXCEPT !.pc = "readStore"])
  /\ UNCHANGED <<tables, sessions, orders, bills, redisReady, emitted>>

\* The read of the store after a miss.
CachedRead_ReadStore(r) ==
  /\ r.op \in CachedReads /\ r.pc = "readStore"
  /\ IF FoundInStore(r)
       THEN Step(r, [r EXCEPT !.pc = "setCache", !.value = LoadFromStore(r)])
       ELSE Done(r, 404, NoId)
  /\ UNCHANGED <<tables, sessions, orders, bills>>
  /\ UNCHANGED cacheVars

\* setCache(cacheKey, value, ttl), then the answer.
CachedRead_SetCache(r) ==
  /\ r.op \in CachedReads /\ r.pc = "setCache"
  /\ IF ChecksConnection(r.op) /\ ~IsConnected
       THEN UNCHANGED <<cache, deadCalls>>
       ELSE SetCache(CacheKeyOf(r), r.value)
  /\ Done(r, 200, NoId)
  /\ UNCHANGED <<tables, sessions, orders, bills, redisReady, emitted>>

----------------------------------------------------------------------------
(* The kitchen socket: register_kitchen and disconnect *)

\* setValue(KITCHEN_SOCKET_KEY, socket.id)
register_kitchen(k) ==
  /\ k \in KitchenSockets
  /\ SetCache(KITCHEN_SOCKET_KEY, k)
  /\ UNCHANGED <<tables, sessions, orders, bills, reqs, redisReady, emitted>>

\* const kitchenSocketId = await getValue(KITCHEN_SOCKET_KEY)
disconnect_Read(k) ==
  /\ k \in KitchenSockets
  /\ GetCache(KITCHEN_SOCKET_KEY)
  /\ LET r == [NoReq EXCEPT !.op = "disconnect", !.socket = k]
     IN  IF CacheHit(KITCHEN_SOCKET_KEY) /\ cache[KITCHEN_SOCKET_KEY] = k
           THEN Begin([r EXCEPT !.pc = "delete"])
           ELSE Begin(Answer(r, 200, NoId))
  /\ UNCHANGED <<tables, sessions, orders, bills, redisReady, emitted>>

\* await deleteCache(KITCHEN_SOCKET_KEY)
disconnect_Delete(r) ==
  /\ r.op = "disconnect" /\ r.pc = "delete"
  /\ DeleteCache({KITCHEN_SOCKET_KEY})
  /\ Done(r, 200, NoId)
  /\ UNCHANGED <<tables, sessions, orders, bills, redisReady, emitted>>

----------------------------------------------------------------------------
(* Bills *)

\* Bill.findOne({ tableSessionId: sessionId }): id or NoId.
BillsOfSession(s) == {b \in BillIds : bills[b].tableSessionId = s}

FindBillOfSession(s) ==
  IF BillsOfSession(s) = {} THEN NoId
  ELSE CHOOSE b \in BillsOfSession(s) : \A x \in BillsOfSession(s) : b <= x

\* Variant without the unique index: every insert is accepted.
BillInsertAlways(s) == TRUE

\* Bill.tableSessionId is unique: bill.save() of a second bill for the same
\* session is refused by the store (duplicate key).
BillInsertAccepted(s) == BillsOfSession(s) = {}

\* Order.find({ _id: { $in: session.orders } }) and
\* orders.reduce((sum, order) => sum + order.total, 0)
RECURSIVE SumOrderTotals(_)
SumOrderTotals(S) ==
  IF S = {} THEN 0
  ELSE LET o == CHOOSE x \in S : TRUE
       IN  orders[o].total + SumOrderTotals(S \ {o})

OrdersTotal(orderIds) ==
  SumOrderTotals({o \in OrderIds : \E i \in 1..Len(orderIds) : orderIds[i] = o})

\* new Bill({ tableSessionId: sessionId, total, paymentStatus: "pending" })
NewBill_Unattached(s, total) ==
  [tableSessionId |-> NoId, total |-> total, paymentStatus |-> "pending"]

NewBill(s, total) == [tableSessionId |-> s, total |-> total, paymentStatus |-> "pending"]

----------------------------------------------------------------------------
(* generateBillForSession (HTTP) *)

generateBillForSession_FindBill(s) ==
  /\ LET r == [NoReq EXCEPT !.op = "generateBillForSession", !.sessionId = s]
         existingBill == FindBillOfSession(s)
     IN  IF existingBill # NoId
           THEN Begin(Answer(r, 400, existingBill))
           ELSE Begin([r EXCEPT !.pc = "readSession"])
  /\ UNCHANGED <<tables, sessions, orders, bills>>
  /\ UNCHANGED cacheVars

generateBillForSession_ReadSession(r) ==
  /\ r.op = "generateBillForSession" /\ r.pc = "readSession"
  /\ LET session == FindSession(r.sessionId)
     IN  IF session = NoSession
           THEN Done(r, 404, NoId)
           ELSE Step(r, [r EXCEPT !.pc = "readOrders", !.session = session])
  /\ UNCHANGED <<tables, sessions, orders, bills>>
  /\ UNCHANGED cacheVars

generateBillForSession_ReadOrders(r) ==
  /\ r.op = "generateBillForSession" /\ r.pc = "readOrders"
  /\ Step(r, [r EXCEPT !.pc = "saveBill", !.total = OrdersTotal(r.session.orders)])
  /\ UNCHANGED <<tables, sessions, orders, bills>>
  /\ UNCHANGED cacheVars

generateBillForSession_SaveBill(r) ==
  /\ r.op = "generateBillForSession" /\ r.pc = "saveBill"
  /\ IF BillInsertAccepted(r.sessionId)
       THEN /\ bills' = Append(bills, NewBill(r.sessionId, r.total))
            /\ Step(r, [r EXCEPT !.pc = "saveSession", !.billId = Len(bills) + 1])
       ELSE /\ UNCHANGED bills
            /\ Done(r, 500, NoId)
  /\ UNCHANGED <<tables, sessions, orders>>
  /\ UNCHANGED cacheVars

\* session.status = "payment_pending"; session.save()
generateBillForSession_SaveSession(r) ==
  /\ r.op = "generateBillForSession" /\ r.pc = "saveSession"
  /\ sessions' = [sessions EXCEPT
                    ![r.sessionId] = SaveSessionDoc(@, r.session, "payment_pending", FALSE)]
  /\ Done(r, 201, r.billId)
  /\ UNCHANGED <<tables, orders, bills>>
  /\ UNCHANGED cacheVars

----------------------------------------------------------------------------
(* endSessionAndGenerateBill (HTTP) *)

endSessionAndGenerateBill_ReadSession(s) ==
  /\ LET session == FindSession(s)
         r == [NoReq EXCEPT !.op = "endSessionAndGenerateBill", !.sessionId = s,
                            !.session = session]
     IN  IF session = NoSession THEN Begin(Answer(r, 404, NoId))
         ELSE IF session.status = "closed" THEN Begin(Answer(r, 400, NoId))
         ELSE Begin([r EXCEPT !.pc = "findBill"])
  /\ UNCHANGED <<tables, sessions, orders, bills>>
  /\ UNCHANGED cacheVars

endSessionAndGenerateBill_FindBill(r) ==
  /\ r.op = "endSessionAndGenerateBill" /\ r.pc = "findBill"
  /\ LET bill == FindBillOfSession(r.sessionId)
     IN  IF bill # NoId
           THEN Step(r, [r EXCEPT !.pc = "saveSession", !.billId = bill])
           ELSE Step(r, [r EXCEPT !.pc = "readOrders"])
  /\ UNCHANGED <<tables, sessions, orders, bills>>
  /\ UNCHANGED cacheVars

endSessionAndGenerateBill_ReadOrders(r) ==
  /\ r.op = "endSessionAndGenerateBill" /\ r.pc = "readOrders"
  /\ Step(r, [r EXCEPT !.pc = "saveBill", !.total = OrdersTotal(r.session.orders)])
  /\ UNCHANGED <<tables, sessions, orders, bills>>
  /\ UNCHANGED cacheVars

endSessionAndGenerateBill_SaveBill(r) ==
  /\ r.op = "endSessionAndGenerateBill" /\ r.pc = "saveBill"
  /\ IF BillInsertAccepted(r.sessionId)
       THEN /\ bills' = Append(bills, NewBill(r.sessionId, r.total))
            /\ Step(r, [r EXCEPT !.pc = "saveSession", !.billId = Len(bills) + 1])
       ELSE /\ UNCHANGED bills
            /\ Done(r, 500, NoId)
  /\ UNCHANGED <<tables, sessions, orders>>
  /\ UNCHANGED cacheVars

\* session.status = "payment_pending"; session.save()
endSessionAndGenerateBill_SaveSession(r) ==
  /\ r.op = "endSessionAndGenerateBill" /\ r.pc = "saveSession"
  /\ sessions' = [sessions EXCEPT
                    ![r.sessionId] = SaveSessionDoc(@, r.session, "payment_pending", FALSE)]
  /\ Done(r, 200, r.billId)
  /\ UNCHANGED <<tables, orders, bills>>
  /\ UNCHANGED cacheVars

----------------------------------------------------------------------------
(* end_session (socket) *)

end_session_ReadSession(s) ==
  /\ LET session == FindSession(s)
         r == [NoReq EXCEPT !.op = "end_session", !.sessionId = s,
                            !.session = session]
     IN  IF session = NoSession THEN Begin(Answer(r, 404, NoId))
         ELSE IF session.status = "closed" THEN Begin(Answer(r, 400, NoId))
         ELSE Begin([r EXCEPT !.pc = "findBill"])
  /\ UNCHANGED <<tables, sessions, orders, bills>>
  /\ UNCHANGED cacheVars

end_session_FindBill(r) ==
  /\ r.op = "end_session" /\ r.pc = "findBill"
  /\ LET bill == FindBillOfSession(r.sessionId)
     IN  IF bill # NoId
           THEN Step(r, [r EXCEPT !.pc = "saveSession", !.billId = bill])
           ELSE Step(r, [r EXCEPT !.pc = "readOrders"])
  /\ UNCHANGED <<tables, sessions, orders, bills>>
  /\ UNCHANGED cacheVars

end_session_ReadOrders(r) ==
  /\ r.op = "end_session" /\ r.pc = "readOrders"
  /\ Step(r, [r EXCEPT !.pc = "saveBill", !.total = OrdersTotal(r.session.orders)])
  /\ UNCHANGED <<tables, sessions, orders, bills>>
  /\ UNCHANGED cacheVars

end_session_SaveBill(r) ==
  /\ r.op = "end_session" /\ r.pc = "saveBill"
  /\ IF BillInsertAccepted(r.sessionId)
       THEN /\ bills' = Append(bills, NewBill(r.sessionId, r.total))
            /\ Step(r, [r EXCEPT !.pc = "saveSession", !.billId = Len(bills) + 1])
       ELSE /\ UNCHANGED bills
            /\ Done(r, 500, NoId)
  /\ UNCHANGED <<tables, sessions, orders>>
  /\ UNCHANGED cacheVars

\* session.status = "closed"; session.endTime = new Date(); session.save()
end_session_SaveSession(r) ==
  /\ r.op = "end_session" /\ r.pc = "saveSession"
  /\ sessions' = [sessions EXCEPT
                    ![r.sessionId] = SaveSessionDoc(@, r.session, "closed", TRUE)]
  /\ Step(r, [r EXCEPT !.pc = "readTable"])
  /\ UNCHANGED <<tables, orders, bills>>
  /\ UNCHANGED cacheVars

\* Table.findById(session.tableId)
end_session_ReadTable(r) ==
  /\ r.op = "end_session" /\ r.pc = "readTable"
  /\ LET table == FindTable(r.session.tableId)
     IN  IF table = NoTable
           THEN Done(r, 200, r.billId)
           ELSE Step(r, [r EXCEPT !.pc = "saveTable", !.tableId = r.session.tableId,
                                  !.table = table])
  /\ UNCHANGED <<tables, sessions, orders, bills>>
  /\ UNCHANGED cacheVars

\* table.status = "cleaning"; table.currentSession = null; table.save()
EndedTable(r) == [r.table EXCEPT !.status = "cleaning", !.currentSession = NoId]

end_session_SaveTable(r) ==
  /\ r.op = "end_session" /\ r.pc = "saveTable"
  /\ tables' = [tables EXCEPT
                  ![r.tableId] = SaveTableDoc(@, r.table, EndedTable(r))]
  /\ Done(r, 200, r.billId)
  /\ UNCHANGED <<sessions, orders, bills>>
  /\ UNCHANGED cacheVars

----------------------------------------------------------------------------
(* updateBillPaymentStatus (HTTP) and its cascade *)

\* if (session && session.status !== "closed")
BillCascadeApplies(session) == session # NoSession /\ session.status # "closed"

updateBillPaymentStatus_Read(b, paymentStatus) ==
  /\ paymentStatus \in PaymentStatuses
  /\ LET r == [NoReq EXCEPT !.op = "updateBillPaymentStatus", !.billId = b,
                            !.status = paymentStatus]
     IN  IF b \notin BillIds THEN Begin(Answer(r, 404, NoId))
         ELSE Begin([r EXCEPT !.pc = "saveBill", !.sessionId = bills[b].tableSessionId])
  /\ UNCHANGED <<tables, sessions, orders, bills>>
  /\ UNCHANGED cacheVars

\* Variant that recomputes the bill's total from the session's orders.
SettledBill_Recomputed(bill, paymentStatus) ==
  [bill EXCEPT !.paymentStatus = paymentStatus,
               !.total = OrdersTotal(sessions[bill.tableSessionId].orders)]

\* bill.paymentStatus = paymentStatus; bill.save()
SettledBill(bill, paymentStatus) == [bill EXCEPT !.paymentStatus = paymentStatus]

updateBillPaymentStatus_SaveBill(r) ==
  /\ r.op = "updateBillPaymentStatus" /\ r.pc = "saveBill"
  /\ bills' = [bills EXCEPT ![r.billId] = SettledBill(@, r.status)]
  /\ IF r.status = "paid"
       THEN Step(r, [r EXCEPT !.pc = "readSession"])
       ELSE Done(r, 200, r.billId)
  /\ UNCHANGED <<tables, sessions, orders>>
  /\ UNCHANGED cacheVars

\* TableSession.findById(bill.tableSessionId)
updateBillPaymentStatus_ReadSession(r) ==
  /\ r.op = "updateBillPaymentStatus" /\ r.pc = "readSession"
  /\ LET session == FindSession(r.sessionId)
     IN  IF BillCascadeApplies(session)
           THEN Step(r, [r EXCEPT !.pc = "saveSession", !.session = session])
           ELSE Done(r, 200, r.billId)
  /\ UNCHANGED <<tables, sessions, orders, bills>>
  /\ UNCHANGED cacheVars

\* session.status = "closed"; session.endTime = new Date(); session.save()
updateBillPaymentStatus_SaveSession(r) ==
  /\ r.op = "updateBillPaymentStatus" /\ r.pc = "saveSession"
  /\ sessions' = [sessions EXCEPT
                    ![r.sessionId] = SaveSessionDoc(@, r.session, "closed", TRUE)]
  /\ Step(r, [r EXCEPT !.pc = "readTable"])
  /\ UNCHANGED <<tables, orders, bills>>
  /\ UNCHANGED cacheVars

\* Table.findById(session.tableId)
updateBillPaymentStatus_ReadTable(r) ==
  /\ r.op = "updateBillPaymentStatus" /\ r.pc = "readTable"
  /\ LET table == FindTable(r.session.tableId)
     IN  IF table = NoTable
           THEN Done(r, 200, r.billId)
           ELSE Step(r, [r EXCEPT !.pc = "saveTable", !.tableId = r.session.tableId,
                                  !.table = table])
  /\ UNCHANGED <<tables, sessions, orders, bills>>
  /\ UNCHANGED cacheVars

\* table.status = "cleaning"; table.currentSession = null; table.save()
SettledTable(r) == [r.table EXCEPT !.status = "cleaning", !.currentSession = NoId]

updateBillPaymentStatus_SaveTable(r) ==
  /\ r.op = "updateBillPaymentStatus" /\ r.pc = "saveTable"
  /\ tables' = [tables EXCEPT
                  ![r.tableId] = SaveTableDoc(@, r.table, SettledTable(r))]
  /\ Done(r, 200, r.billId)
  /\ UNCHANGED <<sessions, orders, bills>>
  /\ UNCHANGED cacheVars

----------------------------------------------------------------------------
(* The answer leaves the server *)

Respond(r) ==
  /\ r.pc = "done"
  /\ reqs' = reqs (-) SetToBag({r})
  /\ UNCHANGED <<tables, sessions, orders, bills>>
  /\ UNCHANGED cacheVars

----------------------------------------------------------------------------
(* The store after construction: every table available, nothing else *)

Init ==
  /\ tables = [t \in Tables |->
                 [status |-> "available", isActive |-> TRUE, currentSession |-> NoId]]
  /\ sessions = <<>>
  /\ orders = <<>>
  /\ bills = <<>>
  /\ reqs = EmptyBag
  /\ cache = [k \in {} |-> NoValue]
  /\ redisReady = TRUE
  /\ emitted = {}
  /\ deadCalls = FALSE
----------------------------------------------------------------------------
(* Sessions and tables under concurrent requests *)

SessionArgs == 1..MaxSessions

Next ==
  \/ \E op \in SocketStartOps, t \in Tables, u \in Users :
       Arrives(MaxInFlight) /\ CanCreateSession(MaxSessions)
       /\ SocketStart_Validate(op, t, u)
  \/ \E r \in InFlight : SocketStart_CheckUser(r)
  \/ \E r \in InFlight : SocketStart_SaveSession(r)
  \/ \E r \in InFlight : SocketStart_SaveTable(r)
  \/ \E t \in Tables :
       Arrives(MaxInFlight) /\ CanCreateSession(MaxSessions)
       /\ startTableSession_Validate(t)
  \/ \E r \in InFlight : startTableSession_SaveSession(r)
  \/ \E r \in InFlight : startTableSession_SaveTable(r)
  \/ \E t \in Tables, st \in TableStatuses :
       Arrives(MaxInFlight) /\ updateTableStatus_Read(t, st)
  \/ \E r \in InFlight : updateTableStatus_EndSession(r)
  \/ \E r \in InFlight : updateTableStatus_SaveTable(r)
  \/ \E s \in SessionArgs : Arrives(MaxInFlight) /\ endTableSession_Read(s)
  \/ \E r \in InFlight : endTableSession_SaveSession(r)
  \/ \E r \in InFlight : endTableSession_ReadTable(r)
  \/ \E r \in InFlight : endTableSession_SaveTable(r)
  \/ \E r \in InFlight : Respond(r)

Spec == Init /\ [][Next]_vars

----------------------------------------------------------------------------
(* Claims about sessions and tables *)

TableOfSession(s) ==
  IF sessions[s].tableId # None THEN sessions[s].tableId ELSE sessions[s].table

ActiveSessionsAt(t) ==
  {s \in SessionIds : sessions[s].status = "active" /\ TableOfSession(s) = t}

\* C1: whenever every handler that was started has completed, each table has
\* a current session if and only if its status is occupied.
C1_SessionIffOccupied ==
  Quiescent =>
    \A t \in Tables : (tables[t].currentSession # NoId) <=> (tables[t].status = "occupied")

\* C2: at most one active session refers to a table, whatever the
\* interleaving of the session starts.
C2_OneActiveSessionPerTable ==
  \A t \in Tables : Cardinality(ActiveSessionsAt(t)) <= 1

\* C3: a client never holds active sessions at two different tables.
C3_OneActiveSessionPerClient ==
  \A s1, s2 \in SessionIds :
    ( /\ sessions[s1].status = "active" /\ sessions[s2].status = "active"
      /\ sessions[s1].clientId # None
      /\ sessions[s1].clientId = sessions[s2].clientId )
    => TableOfSession(s1) = TableOfSession(s2)

\* C4: no table is available while it still refers to a session.
C4_AvailableHasNoSession ==
  \A t \in Tables : ~(tables[t].status = "available" /\ tables[t].currentSession # NoId)

----------------------------------------------------------------------------
(* The whole lifecycle, one request at a time: every handler runs to its    *)
(* answer before the next request arrives.                                  *)

LifecycleSessions == 1
LifecycleOrders == 2

LifecycleItems ==
  { <<[menuItemId |-> "M1", quantity |-> 2], [menuItemId |-> "M2", quantity |-> 1]>> }

NextLifecycle ==
  \/ \E op \in SocketStartOps :
       Arrives(1) /\ CanCreateSession(LifecycleSessions)
       /\ SocketStart_Validate(op, "T1", "U1")
  \/ \E r \in InFlight : SocketStart_CheckUser(r)
  \/ \E r \in InFlight : SocketStart_SaveSession(r)
  \/ \E r \in InFlight : SocketStart_SaveTable(r)
  \/ Arrives(1) /\ CanCreateSession(LifecycleSessions) /\ startTableSession_Validate("T1")
  \/ \E r \in InFlight : startTableSession_SaveSession(r)
  \/ \E r \in InFlight : startTableSession_SaveTable(r)
  \/ \E st \in TableStatuses : Arrives(1) /\ updateTableStatus_Read("T1", st)
  \/ \E r \in InFlight : updateTableStatus_EndSession(r)
  \/ \E r \in InFlight : updateTableStatus_SaveTable(r)
  \/ \E s \in 1..LifecycleSessions : Arrives(1) /\ endTableSession_Read(s)
  \/ \E r \in InFlight : endTableSession_SaveSession(r)
  \/ \E r \in InFlight : endTableSession_ReadTable(r)
  \/ \E r \in InFlight : endTableSession_SaveTable(r)
  \/ \E items \in LifecycleItems, s \in 0..LifecycleSessions :
       Arrives(1) /\ CanCreateOrder(LifecycleOrders)
       /\ createOrder_SaveOrder("U1", items, "Dine In", "T1", s)
  \/ \E r \in InFlight : createOrder_FindSession(r)
  \/ \E r \in InFlight : createOrder_PushOrder(r)
  \/ \E r \in InFlight : createOrder_Notify(r)
  \/ \E o \in 1..LifecycleOrders, st \in {"preparing", "delivered"} :
       Arrives(1) /\ updateOrderStatus_Read(o, st)
  \/ \E r \in InFlight : updateOrderStatus_SaveOrder(r)
  \/ \E r \in InFlight : updateOrderStatus_Notify(r)
  \/ \E r \in InFlight : updateOrderStatus_Invalidate(r)
  \/ \E r \in InFlight : updateOrderStatus_InvalidateSession(r)
  \/ \E o \in 1..LifecycleOrders, ps \in PaymentStatuses :
       Arrives(1) /\ updatePaymentStatus_Read(o, ps)
  \/ \E r \in InFlight : updatePaymentStatus_SaveOrder(r)
  \/ \E r \in InFlight : updatePaymentStatus_FindSession(r)
  \/ \E r \in InFlight : updatePaymentStatus_CountUnpaid(r)
  \/ \E r \in InFlight : updatePaymentStatus_SaveSession(r)
  \/ \E r \in InFlight : updatePaymentStatus_ReadTable(r)
  \/ \E r \in InFlight : updatePaymentStatus_SaveTable(r)
  \/ \E r \in InFlight : updatePaymentStatus_Invalidate(r)
  \/ \E s \in 1..LifecycleSessions : Arrives(1) /\ generateBillForSession_FindBill(s)
  \/ \E r \in InFlight : generateBillForSession_ReadSession(r)
  \/ \E r \in InFlight : generateBillForSession_ReadOrders(r)
  \/ \E r \in InFlight : generateBillForSession_SaveBill(r)
  \/ \E r \in InFlight : generateBillForSession_SaveSession(r)
  \/ \E s \in 1..LifecycleSessions : Arrives(1) /\ endSessionAndGenerateBill_ReadSession(s)
  \/ \E r \in InFlight : endSessionAndGenerateBill_FindBill(r)
  \/ \E r \in InFlight : endSessionAndGenerateBill_ReadOrders(r)
  \/ \E r \in InFlight : endSessionAndGenerateBill_SaveBill(r)
  \/ \E r \in InFlight : endSessionAndGenerateBill_SaveSession(r)
  \/ \E s \in 1..LifecycleSessions : Arrives(1) /\ end_session_ReadSession(s)
  \/ \E r \in InFlight : end_session_FindBill(r)
  \/ \E r \in InFlight : end_session_ReadOrders(r)
  \/ \E r \in InFlight : end_session_SaveBill(r)
  \/ \E r \in InFlight : end_session_SaveSession(r)
  \/ \E r \in InFlight : end_session_ReadTable(r)
  \/ \E r \in InFlight : end_session_SaveTable(r)
  \/ \E b \in 1..LifecycleSessions, ps \in PaymentStatuses :
       Arrives(1) /\ updateBillPaymentStatus_Read(b, ps)
  \/ \E r \in InFlight : updateBillPaymentStatus_SaveBill(r)
  \/ \E r \in InFlight : updateBillPaymentStatus_ReadSession(r)
  \/ \E r \in InFlight : updateBillPaymentStatus_SaveSession(r)
  \/ \E r \in InFlight : updateBillPaymentStatus_ReadTable(r)
  \/ \E r \in InFlight : updateBillPaymentStatus_SaveTable(r)
  \/ \E r \in InFlight : Respond(r)

SpecLifecycle == Init /\ [][NextLifecycle]_vars

----------------------------------------------------------------------------
(* Claims about the payment cascade, checked on the sequential lifecycle *)

AnsweredBy(ops) == {r \in InFlight : r.pc = "done" /\ r.op \in ops}

\* updatePaymentStatus(order, "paid") has answered 200.
PaidAnswers ==
  {r \in AnsweredBy({"updatePaymentStatus"}) : r.status = "paid" /\ r.code = 200}

AllOrdersPaid(s) == UnpaidOrders(sessions[s].orders) = 0

\* The handler found the session payment_pending: it either closed it
\* (sessionUpdated) or left it as it was.
WasPaymentPending(r, s) == r.sessionUpdated \/ sessions[s].status = "payment_pending"

SessionClosedTableCleaning(s) ==
  /\ sessions[s].status = "closed"
  /\ sessions[s].endTime = 1
  /\ tables[TableOfSession(s)].status = "cleaning"
  /\ tables[TableOfSession(s)].currentSession = NoId

C5_LastPaymentCloses ==
  \A r \in PaidAnswers : \A s \in SessionsWithOrder(r.orderId) :
    (WasPaymentPending(r, s) /\ AllOrdersPaid(s)) => SessionClosedTableCleaning(s)

C5_EarlierPaymentsChangeNothing ==
  \A r \in InFlight : \A s \in SessionsWithOrder(r.orderId) :
    ( /\ r.op = "updatePaymentStatus" /\ r.status = "paid" /\ r.pc # "done"
      /\ sessions[s].status = "payment_pending"
      /\ ~AllOrdersPaid(s)' )
    => (sessions' = sessions /\ tables' = tables)

\* C5: in a payment_pending session, the updatePaymentStatus(paid) that leaves
\* no attached order unpaid closes the session (with endTime) and sets its
\* table to cleaning without a current session; one that leaves an order
\* unpaid changes neither the session nor the table.
C5_PaymentCascade ==
  []C5_LastPaymentCloses /\ [][C5_EarlierPaymentsChangeNothing]_vars

\* A session started for a client (initiate_session / scan_qr_code) that
\* holds exactly one order.
ClientSessionWithOneOrder(s) ==
  sessions[s].clientId # None /\ Len(sessions[s].orders) = 1

C7_SameCascade ==
  \A r \in InFlight :
    /\ (r.op = "updateBillPaymentStatus" /\ r.pc = "saveSession")
         => ( /\ sessions[r.sessionId].status = "payment_pending"
              /\ AllOrdersPaid(r.sessionId) )
    /\ (r.op = "updateBillPaymentStatus" /\ r.pc = "done" /\ r.code = 200
          /\ r.status = "paid" /\ r.sessionId \in SessionIds)
         => sessions[r.sessionId].status = "closed"

----------------------------------------------------------------------------
(* Claims about bills *)

BillGenerators == {"generateBillForSession", "endSessionAndGenerateBill", "end_session"}

\* C8: a bill generation answered for a session that has a bill carries the
\* id of that bill, and the session has no second bill.
C8_GenerationIdempotent ==
  \A r \in AnsweredBy(BillGenerators) :
    BillsOfSession(r.sessionId) # {}
      => ( /\ r.respId = FindBillOfSession(r.sessionId)
           /\ Cardinality(BillsOfSession(r.sessionId)) = 1 )

\* C10: no step of any handler changes the total of a bill that exists.
C10_BillTotalFrozen ==
  [][\A b \in BillIds : bills'[b].total = bills[b].total]_vars

\* A settled bill whose session has since received an order: the bill's total
\* is no longer the sum of the session's orders.
C10_Witness ==
  \E b \in BillIds :
    /\ bills[b].paymentStatus = "paid"
    /\ bills[b].tableSessionId \in SessionIds
    /\ bills[b].total # OrdersTotal(sessions[bills[b].tableSessionId].orders)

----------------------------------------------------------------------------
(* Bill generation under concurrent requests *)

RaceSessions == 1

NextBillRace ==
  \/ Arrives(MaxInFlight) /\ CanCreateSession(RaceSessions)
     /\ SocketStart_Validate("initiate_session", "T1", "U1")
  \/ \E r \in InFlight : SocketStart_CheckUser(r)
  \/ \E r \in InFlight : SocketStart_SaveSession(r)
  \/ \E r \in InFlight : SocketStart_SaveTable(r)
  \/ \E s \in 1..RaceSessions : Arrives(MaxInFlight) /\ generateBillForSession_FindBill(s)
  \/ \E r \in InFlight : generateBillForSession_ReadSession(r)
  \/ \E r \in InFlight : generateBillForSession_ReadOrders(r)
  \/ \E r \in InFlight : generateBillForSession_SaveBill(r)
  \/ \E r \in InFlight : generateBillForSession_SaveSession(r)
  \/ \E s \in 1..RaceSessions : Arrives(MaxInFlight) /\ endSessionAndGenerateBill_ReadSession(s)
  \/ \E r \in InFlight : endSessionAndGenerateBill_FindBill(r)
  \/ \E r \in InFlight : endSessionAndGenerateBill_ReadOrders(r)
  \/ \E r \in InFlight : endSessionAndGenerateBill_SaveBill(r)
  \/ \E r \in InFlight : endSessionAndGenerateBill_SaveSession(r)
  \/ \E s \in 1..RaceSessions : Arrives(MaxInFlight) /\ end_session_ReadSession(s)
  \/ \E r \in InFlight : end_session_FindBill(r)
  \/ \E r \in InFlight : end_session_ReadOrders(r)
  \/ \E r \in InFlight : end_session_SaveBill(r)
  \/ \E r \in InFlight : end_session_SaveSession(r)
  \/ \E r \in InFlight : end_session_ReadTable(r)
  \/ \E r \in InFlight : end_session_SaveTable(r)
  \/ \E r \in InFlight : Respond(r)

SpecBillRace == Init /\ [][NextBillRace]_vars

----------------------------------------------------------------------------
(* Orders: creation, status and payment under concurrent requests *)

OrdersCreated == 2

OrderItemChoices ==
  { <<[menuItemId |-> "M1", quantity |-> 2], [menuItemId |-> "M2", quantity |-> 1]>>,
    <<[menuItemId |-> "M2", quantity |-> 3]>>,
    <<>> }

NextOrders ==
  \/ \E items \in OrderItemChoices, orderType \in OrderTypes :
       Arrives(MaxInFlight) /\ CanCreateOrder(OrdersCreated)
       /\ createOrder_SaveOrder("U1", items, orderType, "T1", NoId)
  \/ \E r \in InFlight : createOrder_Notify(r)
  \/ \E o \in 1..OrdersCreated, st \in {"confirmed", "cancelled"} :
       Arrives(MaxInFlight) /\ updateOrderStatus_Read(o, st)
  \/ \E r \in InFlight : updateOrderStatus_SaveOrder(r)
  \/ \E r \in InFlight : updateOrderStatus_Notify(r)
  \/ \E r \in InFlight : updateOrderStatus_Invalidate(r)
  \/ \E r \in InFlight : updateOrderStatus_InvalidateSession(r)
  \/ \E o \in 1..OrdersCreated :
       Arrives(MaxInFlight) /\ updatePaymentStatus_Read(o, "paid")
  \/ \E r \in InFlight : updatePaymentStatus_SaveOrder(r)
  \/ \E r \in InFlight : updatePaymentStatus_FindSession(r)
  \/ \E r \in InFlight : updatePaymentStatus_Invalidate(r)
  \/ \E r \in InFlight : Respond(r)

SpecOrders == Init /\ [][NextOrders]_vars

RECURSIVE SumOfItems(_, _)
SumOfItems(items, n) ==
  IF n = 0 THEN 0 ELSE items[n].price * items[n].quantity + SumOfItems(items, n - 1)

C11_TotalsConsistent ==
  \A o \in OrderIds :
    /\ orders[o].total = orders[o].subtotal + orders[o].deliveryFee
    /\ orders[o].subtotal = SumOfItems(orders[o].items, Len(orders[o].items))
    /\ \A i \in 1..Len(orders[o].items) :
         /\ orders[o].items[i].total = orders[o].items[i].price * orders[o].items[i].quantity
         /\ orders[o].items[i].price = Menu[orders[o].items[i].menuItem].price
    /\ orders[o].deliveryFee = (IF orders[o].orderType = "Delivery" THEN 4 ELSE 0)

C11_TotalsFrozen ==
  \A o \in OrderIds :
    /\ orders'[o].items = orders[o].items
    /\ orders'[o].subtotal = orders[o].subtotal
    /\ orders'[o].deliveryFee = orders[o].deliveryFee
    /\ orders'[o].total = orders[o].total

\* C11: every stored order has total = subtotal + deliveryFee, subtotal = the
\* sum of price * quantity over its items, item.total = price * quantity with
\* the menu's price, deliveryFee = 2.00 for Delivery and 0 otherwise; and no
\* step of any handler changes these fields of an existing order.
C11_OrderTotals == []C11_TotalsConsistent /\ [][C11_TotalsFrozen]_vars

\* A Delivery order of two items whose status and payment status were changed
\* after its creation.
C11_Witness ==
  \E o \in OrderIds :
    /\ orders[o].orderType = "Delivery" /\ Len(orders[o].items) = 2
    /\ orders[o].status = "cancelled" /\ orders[o].paymentStatus = "paid"
    /\ orders[o].total = 31

----------------------------------------------------------------------------
(* Orders read through the cache, one request at a time; the kitchen socket
   registers and disconnects *)

CacheSessions == 1
CacheOrders == 1

CacheItems == { <<[menuItemId |-> "M1", quantity |-> 1]>> }

RequestedStatuses == {"preparing", "ready_for_pickup", "cancelled", "delivered"}

NextCache ==
  \/ Arrives(1) /\ CanCreateSession(CacheSessions)
     /\ SocketStart_Validate("initiate_session", "T1", "U1")
  \/ \E r \in InFlight : SocketStart_CheckUser(r)
  \/ \E r \in InFlight : SocketStart_SaveSession(r)
  \/ \E r \in InFlight : SocketStart_SaveTable(r)
  \/ \E items \in CacheItems, s \in 0..CacheSessions :
       Arrives(1) /\ CanCreateOrder(CacheOrders)
       /\ createOrder_SaveOrder("U1", items, "Dine In", "T1", s)
  \/ \E r \in InFlight : createOrder_FindSession(r)
  \/ \E r \in InFlight : createOrder_PushOrder(r)
  \/ \E r \in InFlight : createOrder_Notify(r)
  \/ \E r \in InFlight : createOrder_NotifyDelete(r)
  \/ \E o \in 1..CacheOrders, st \in RequestedStatuses :
       Arrives(1) /\ updateOrderStatus_Read(o, st)
  \/ \E r \in InFlight : updateOrderStatus_SaveOrder(r)
  \/ \E r \in InFlight : updateOrderStatus_Notify(r)
  \/ \E r \in InFlight : updateOrderStatus_NotifyDelete(r)
  \/ \E r \in InFlight : updateOrderStatus_Invalidate(r)
  \/ \E r \in InFlight : updateOrderStatus_InvalidateSession(r)
  \/ \E o \in 1..CacheOrders : Arrives(1) /\ updatePaymentStatus_Read(o, "paid")
  \/ \E r \in InFlight : updatePaymentStatus_SaveOrder(r)
  \/ \E r \in InFlight : updatePaymentStatus_FindSession(r)
  \/ \E r \in InFlight : updatePaymentStatus_Invalidate(r)
  \/ \E o \in 1..CacheOrders :
       Arrives(1) /\ CachedRead_Lookup("getOrderDetails", o, None, NoId, None)
  \/ Arrives(1) /\ CachedRead_Lookup("getOrdersByUser", NoId, "U1", NoId, None)
  \/ \E s \in 1..CacheSessions :
       Arrives(1) /\ CachedRead_Lookup("getOrdersBySession", NoId, None, s, None)
  \/ \E op \in {"getKitchenOrders", "getCompletedKitchenOrders"} :
       Arrives(1) /\ CachedRead_Lookup(op, NoId, None, NoId, None)
  \/ \E r \in InFlight : CachedRead_ReadStore(r)
  \/ \E r \in InFlight : CachedRead_SetCache(r)
  \/ \E k \in {"K1"} : Quiescent /\ register_kitchen(k)
  \/ \E k \in {"K1"} : Arrives(1) /\ disconnect_Read(k)
  \/ \E r \in InFlight : disconnect_Delete(r)
  \/ \E r \in InFlight : Respond(r)

SpecCache == Init /\ [][NextCache]_vars

ChangesStatus(r) == r.op = "updateOrderStatus" /\ r.prev # None

\* The step of request r that answers it with `code`.
AnsweredNow(r, code) ==
  /\ r.pc # "done"
  /\ CopiesIn(r, reqs') < CopiesIn(r, reqs)
  /\ \E d \in InFlight' :
       /\ d.pc = "done" /\ d.code = code /\ d.op = r.op /\ d.orderId = r.orderId
       /\ CopiesIn(d, reqs') > CopiesIn(d, reqs)

\* Views of order o that the cache holds with a status other than `status`.
StaleViews(o, status) ==
  {k \in DOMAIN cache \ {KITCHEN_SOCKET_KEY} :
     \E v \in cache[k].orders : v.id = o /\ v.status # status}

\* C13: when order_status_updated has been emitted for the latest committed
\* status of an order, no cache key holds that order with another status: the
\* stale keys are dropped before the notification is emitted.
C13_DroppedBeforeNotified ==
  \A e \in emitted :
    (e.event = "order_status_updated" /\ orders[e.orderId].status = e.status)
      => StaleViews(e.orderId, e.status) = {}

\* The sides of the status boundary as the specification names them.
ActiveSide == {"pending", "confirmed", "preparing"}
CompletedSide == {"ready_for_pickup", "delivered", "cancelled"}

CrossesBoundary(previous, status) ==
  \/ (previous \in ActiveSide /\ status \in CompletedSide)
  \/ (previous \in CompletedSide /\ status \in ActiveSide)

\* C14: the step that completes an updateOrderStatus which moved an order
\* across the active/completed boundary leaves neither kitchen-active-orders
\* nor kitchen-completed-orders in the cache.
C14_BothAggregatesDeleted ==
  [][\A r \in InFlight :
       (ChangesStatus(r) /\ CrossesBoundary(r.prev, r.status) /\ AnsweredNow(r, 200))
         => {KITCHEN_ORDERS_CACHE, COMPLETED_ORDERS_CACHE} \cap DOMAIN cache' = {}]_vars

\* An order has been moved across the boundary while both aggregates were
\* cached, and the handler is about to drop the kitchen keys.
C14_Witness ==
  \E r \in InFlight :
    /\ ChangesStatus(r) /\ r.pc = "invalidateSession"
    /\ r.prev \in CompletedSide /\ r.status \in ActiveSide
    /\ orders[r.orderId].status = r.status
    /\ {KITCHEN_ORDERS_CACHE, COMPLETED_ORDERS_CACHE} \subseteq DOMAIN cache

\* C15: no step of an updateOrderStatus that changes a status within one side
\* of the boundary removes the other side's aggregate from the cache.
C15_OtherAggregateKept ==
  [][\A r \in InFlight :
       (ChangesStatus(r) /\ r.pc # "done")
         => /\ (r.prev \in CompletedSide /\ r.status \in CompletedSide
                  /\ KITCHEN_ORDERS_CACHE \in DOMAIN cache)
                 => KITCHEN_ORDERS_CACHE \in DOMAIN cache'
            /\ (r.prev \in ActiveSide /\ r.status \in ActiveSide
                  /\ COMPLETED_ORDERS_CACHE \in DOMAIN cache)
                 => COMPLETED_ORDERS_CACHE \in DOMAIN cache']_vars

\* C16: once createOrder has answered 201 for an order attached to a session,
\* the cache holds neither the session-orders entry of that session nor
\* kitchen-active-orders.
C16_CreateOrderInvalidates ==
  \A r \in InFlight :
    (r.op = "createOrder" /\ r.pc = "done" /\ r.code = 201 /\ r.sessionId # NoId)
      => /\ SessionOrdersKey(r.sessionId) \notin DOMAIN cache
         /\ KITCHEN_ORDERS_CACHE \notin DOMAIN cache

\* C18: an updateOrderStatus that asks for the status the order already has
\* is answered 200 at once, and its step changes neither the store nor the
\* cache nor what has been emitted.
C18_SameStatusNoEffect ==
  [][\A r \in InFlight' :
       ( /\ BagCardinality(reqs') > BagCardinality(reqs)
         /\ CopiesIn(r, reqs') > CopiesIn(r, reqs)
         /\ r.op = "updateOrderStatus" /\ r.orderId \in OrderIds
         /\ orders[r.orderId].status = r.status )
       => /\ r.pc = "done" /\ r.code = 200
          /\ UNCHANGED <<tables, sessions, orders, bills, cache, emitted, deadCalls>>]_vars

\* The no-op was answered while the order's details were cached and a kitchen
\* socket was registered.
C18_Witness ==
  \E r \in InFlight :
    /\ r.op = "updateOrderStatus" /\ r.pc = "done" /\ r.code = 200 /\ r.prev = None
    /\ r.orderId \in OrderIds /\ orders[r.orderId].status = r.status
    /\ r.status = "cancelled"
    /\ {KITCHEN_SOCKET_KEY, OrderDetailsKey(r.orderId)} \subseteq DOMAIN cache

\* The statuses of the specification.
SpecifiedStatuses ==
  {"pending", "confirmed", "preparing", "ready_for_pickup", "delivered", "cancelled"}

\* C19: an updateOrderStatus(order, t) on an existing order, t one of the six
\* statuses, is answered 200 and leaves the stored status equal to t.
C19_AnyTransitionAccepted ==
  \A r \in InFlight :
    ( /\ r.op = "updateOrderStatus" /\ r.pc = "done"
      /\ r.orderId \in OrderIds /\ r.status \in SpecifiedStatuses )
    => (r.code = 200 /\ orders[r.orderId].status = r.status)

----------------------------------------------------------------------------
(* Orders read through the cache while the cache store is lost and comes
   back, one request at a time *)

NextFailOpen ==
  \/ Arrives(1) /\ CanCreateSession(CacheSessions)
     /\ SocketStart_Validate("initiate_session", "T1", "U1")
  \/ \E r \in InFlight : SocketStart_CheckUser(r)
  \/ \E r \in InFlight : SocketStart_SaveSession(r)
  \/ \E r \in InFlight : SocketStart_SaveTable(r)
  \/ \E items \in CacheItems, s \in 0..CacheSessions :
       Arrives(1) /\ CanCreateOrder(CacheOrders)
       /\ createOrder_SaveOrder("U1", items, "Dine In", "T1", s)
  \/ \E r \in InFlight : createOrder_FindSession(r)
  \/ \E r \in InFlight : createOrder_PushOrder(r)
  \/ \E r \in InFlight : createOrder_Notify(r)
  \/ \E o \in 1..CacheOrders, st \in {"preparing", "cancelled"} :
       Arrives(1) /\ updateOrderStatus_Read(o, st)
  \/ \E r \in InFlight : updateOrderStatus_SaveOrder(r)
  \/ \E r \in InFlight : updateOrderStatus_Notify(r)
  \/ \E r \in InFlight : updateOrderStatus_Invalidate(r)
  \/ \E r \in InFlight : updateOrderStatus_InvalidateSession(r)
  \/ \E o \in 1..CacheOrders : Arrives(1) /\ updatePaymentStatus_Read(o, "paid")
  \/ \E r \in InFlight : updatePaymentStatus_SaveOrder(r)
  \/ \E r \in InFlight : updatePaymentStatus_FindSession(r)
  \/ \E r \in InFlight : updatePaymentStatus_Invalidate(r)
  \/ \E o \in 1..CacheOrders :
       Arrives(1) /\ CachedRead_Lookup("getOrderDetails", o, None, NoId, None)
  \/ Arrives(1) /\ CachedRead_Lookup("getOrdersByUser", NoId, "U1", NoId, None)
  \/ \E s \in 1..CacheSessions :
       Arrives(1) /\ CachedRead_Lookup("getOrdersBySession", NoId, None, s, None)
  \/ \E r \in InFlight : CachedRead_ReadStore(r)
  \/ \E r \in InFlight : CachedRead_SetCache(r)
  \/ Quiescent /\ RedisConnectionChange
  \/ \E r \in InFlight : Respond(r)

SpecFailOpen == Init /\ [][NextFailOpen]_vars

\* The requests that change an order.
Transitions == {"createOrder", "updateOrderStatus", "updatePaymentStatus"}

\* The store holds what transition r is to write.
Committed(r) ==
  /\ r.orderId \in OrderIds
  /\ r.op = "updateOrderStatus" => orders[r.orderId].status = r.status
  /\ r.op = "updatePaymentStatus" => orders[r.orderId].paymentStatus = r.status

\* The step removes a key of cached orders or emits an event.
DeletesOrEmits ==
  \/ \E k \in DOMAIN cache \ {KITCHEN_SOCKET_KEY} : k \notin DOMAIN cache'
  \/ emitted' # emitted

\* C26: a step of createOrder, updateOrderStatus or updatePaymentStatus
\* deletes a cache key or emits an event only when the request's store write
\* has been committed; a request whose write failed deletes and emits nothing.
C26_SideEffectsAfterCommit ==
  [][\A r \in InFlight :
       (r.op \in Transitions /\ r.pc # "done" /\ DeletesOrEmits) => Committed(r)]_vars

\* A status change has been committed and notified, and its handler is about
\* to delete the kitchen aggregate it has in the cache.
C26_Witness ==
  \E r \in InFlight :
    /\ r.op = "updateOrderStatus" /\ r.pc = "notifyDelete" /\ Committed(r)
    /\ KITCHEN_ORDERS_CACHE \in DOMAIN cache
    /\ \E e \in emitted : e.event = "order_status_updated" /\ e.status = r.status

\* While the cache store is unreachable, an answered read carries what the
\* store holds, and an answered transition has committed.
C17_AnsweredFromStore ==
  ~redisReady =>
    \A r \in InFlight :
      r.pc = "done" =>
        /\ r.op \in CachedReads =>
             IF FoundInStore(r) THEN r.code = 200 /\ r.value = LoadFromStore(r)
                                ELSE r.code = 404
        /\ (r.op = "updateOrderStatus" /\ r.orderId \in OrderIds
              /\ r.status \in OrderStatusEnum)
             => (r.code = 200 /\ orders[r.orderId].status = r.status)
        /\ (r.op = "updatePaymentStatus" /\ r.orderId \in OrderIds)
             => (r.code = 200 /\ orders[r.orderId].paymentStatus = r.status)
        /\ (r.op = "createOrder" /\ r.orderId # NoId)
             => /\ r.orderId \in OrderIds
                /\ r.code = (IF r.sessionId = NoId \/ r.sessionId \in SessionIds
                               THEN 201 ELSE 404)

C17_CacheUntouched == ~redisReady => cache' = cache

----------------------------------------------------------------------------
(* A cached read of an order racing with a change of its status *)

RaceOrders == 1

NextCacheRace ==
  \/ \E items \in CacheItems :
       Arrives(MaxInFlight) /\ CanCreateOrder(RaceOrders)
       /\ createOrder_SaveOrder("U1", items, "Take Away", None, NoId)
  \/ \E r \in InFlight : createOrder_Notify(r)
  \/ \E o \in 1..RaceOrders, st \in {"preparing", "cancelled"} :
       Arrives(MaxInFlight) /\ updateOrderStatus_Read(o, st)
  \/ \E r \in InFlight : updateOrderStatus_SaveOrder(r)
  \/ \E r \in InFlight : updateOrderStatus_Notify(r)
  \/ \E r \in InFlight : updateOrderStatus_Invalidate(r)
  \/ \E r \in InFlight : updateOrderStatus_InvalidateSession(r)
  \/ \E o \in 1..RaceOrders :
       Arrives(MaxInFlight) /\ CachedRead_Lookup("getOrderDetails", o, None, NoId, None)
  \/ \E r \in InFlight : CachedRead_ReadStore(r)
  \/ \E r \in InFlight : CachedRead_SetCache(r)
  \/ \E r \in InFlight : Respond(r)

SpecCacheRace == Init /\ [][NextCacheRace]_vars

\* No updateOrderStatus on order o is under way.
NoWriteUnderWay(o) ==
  \A w \in InFlight :
    (w.op = "updateOrderStatus" /\ w.orderId = o) => w.pc = "done"

\* C12: a getOrderDetails that arrives when every updateOrderStatus on its
\* order has completed is not answered with a status other than the stored
\* one, whatever reads were interleaved with those updates.
C12_NoStaleOrderDetails ==
  [][\A r \in InFlight' :
       ( /\ BagCardinality(reqs') > BagCardinality(reqs)
         /\ CopiesIn(r, reqs') > CopiesIn(r, reqs)
         /\ r.op = "getOrderDetails" /\ r.pc = "done" /\ r.code = 200
         /\ NoWriteUnderWay(r.orderId) )
       => \A v \in r.value.orders : v.status = orders[r.orderId].status]_vars

----------------------------------------------------------------------------
(* Rejected session starts *)

StartTables == Tables \cup {"T9"}
StartUsers == Users \cup {"U9"}
StartOps == SocketStartOps \cup {"startTableSession"}

NextStart ==
  \/ \E op \in SocketStartOps, t \in StartTables, u \in StartUsers :
       Arrives(MaxInFlight) /\ CanCreateSession(MaxSessions)
       /\ SocketStart_Validate(op, t, u)
  \/ \E r \in InFlight : SocketStart_CheckUser(r)
  \/ \E r \in InFlight : SocketStart_SaveSession(r)
  \/ \E r \in InFlight : SocketStart_SaveTable(r)
  \/ \E t \in StartTables :
       Arrives(MaxInFlight) /\ CanCreateSession(MaxSessions)
       /\ startTableSession_Validate(t)
  \/ \E r \in InFlight : startTableSession_SaveSession(r)
  \/ \E r \in InFlight : startTableSession_SaveTable(r)
  \/ \E isActive \in BOOLEAN :
       Arrives(MaxInFlight) /\ createOrUpdateTable_Read("T2", isActive)
  \/ \E r \in InFlight : createOrUpdateTable_Save(r)
  \/ \E s \in SessionArgs : Arrives(MaxInFlight) /\ endTableSession_Read(s)
  \/ \E r \in InFlight : endTableSession_SaveSession(r)
  \/ \E r \in InFlight : endTableSession_ReadTable(r)
  \/ \E r \in InFlight : endTableSession_SaveTable(r)
  \/ \E r \in InFlight : Respond(r)

SpecStart == Init /\ [][NextStart]_vars

\* Request r is a session start answered with a rejection.
Rejected(r) == r.op \in StartOps /\ r.pc = "done" /\ r.code \notin {200, 201}

\* C20: the step that rejects a session start changes no session and no
\* table, the rejected request has created no session, and a rejection for an
\* existing active session of the client carries that session's id.
C20_RejectedStartCreatesNothing ==
  [][\A r \in InFlight' :
       (Rejected(r) /\ CopiesIn(r, reqs') > CopiesIn(r, reqs))
         => /\ sessions' = sessions /\ tables' = tables
            /\ r.sessionId = NoId
            /\ r.code = 409 => r.respId \in ActiveSessionsOf(r.userId)]_vars

\* A start on a free table was rejected with the id of the client's active
\* session at another table, and the free table is as it was.
C20_Witness ==
  \E r \in InFlight :
    /\ Rejected(r) /\ r.code = 409 /\ r.sessionId = NoId
    /\ r.respId \in ActiveSessionsOf(r.userId)
    /\ sessions[r.respId].tableId # r.tableId
    /\ tables[r.tableId].status = "available"
    /\ tables[r.tableId].currentSession = NoId
    /\ Len(sessions) = 1

----------------------------------------------------------------------------
(* Successful session starts *)

\* Session s refers to table t, through either of the two fields in use.
RefersTo(s, t) == sessions[s].table = t \/ sessions[s].tableId = t

\* The step of start request r that saves the table and answers success.
CompletesStart(r) ==
  /\ r.op \in StartOps /\ r.pc = "saveTable"
  /\ CopiesIn(r, reqs') < CopiesIn(r, reqs)

\* A step creates at most one session and creates it active.
OneActiveSessionCreated ==
  /\ Len(sessions') \in {Len(sessions), Len(sessions) + 1}
  /\ Len(sessions') > Len(sessions) => sessions'[Len(sessions')].status = "active"

\* C21: a session start creates one session, active when created and
\* referring to the table, and the step that answers success leaves the
\* table occupied with currentSession equal to that session's id.
C21_StartOccupiesTable ==
  [][/\ OneActiveSessionCreated
     /\ \A r \in InFlight :
          CompletesStart(r)
            => /\ r.sessionId \in SessionIds /\ RefersTo(r.sessionId, r.tableId)
               /\ tables'[r.tableId].status = "occupied"
               /\ tables'[r.tableId].currentSession = r.sessionId]_vars

\* Two starts on the same table have both succeeded; the table points at the
\* session of the one that saved last.
C21_Witness ==
  \E r \in InFlight :
    /\ r.op \in StartOps /\ r.pc = "done" /\ r.code \in {200, 201}
    /\ Len(sessions) = 2 /\ r.sessionId = 2
    /\ sessions[r.sessionId].status = "active" /\ RefersTo(r.sessionId, r.tableId)
    /\ tables[r.tableId].status = "occupied"
    /\ tables[r.tableId].currentSession = r.sessionId

----------------------------------------------------------------------------
(* Orders placed into a session by concurrent requests *)

PlaceSessions == 1
PlaceOrders == 3

PlaceItems ==
  { <<[menuItemId |-> "M1", quantity |-> 1]>>,
    <<[menuItemId |-> "M1", quantity |-> 1], [menuItemId |-> "M9", quantity |-> 1]>>,
    <<[menuItemId |-> "M3", quantity |-> 1]>>,
    <<>> }

NextPlace ==
  \/ Arrives(MaxInFlight) /\ CanCreateSession(PlaceSessions)
     /\ SocketStart_Validate("initiate_session", "T1", "U1")
  \/ \E r \in InFlight : SocketStart_CheckUser(r)
  \/ \E r \in InFlight : SocketStart_SaveSession(r)
  \/ \E r \in InFlight : SocketStart_SaveTable(r)
  \/ \E u \in {"U1", "U9"}, items \in PlaceItems, s \in 0..(PlaceSessions + 1) :
       Arrives(MaxInFlight) /\ CanCreateOrder(PlaceOrders)
       /\ createOrder_SaveOrder(u, items, "Dine In", "T1", s)
  \/ \E r \in InFlight : createOrder_FindSession(r)
  \/ \E r \in InFlight : createOrder_PushOrder(r)
  \/ \E r \in InFlight : createOrder_Notify(r)
  \/ \E r \in InFlight : Respond(r)

SpecPlace == Init /\ [][NextPlace]_vars

\* C22: a createOrder answered 400 or 404 has saved no order: the step that
\* rejects it leaves the orders and the sessions as they were, and the
\* rejected request created no order before.
C22_RejectedCreateOrderWritesNothing ==
  [][\A r \in InFlight' :
       ( /\ r.op = "createOrder" /\ r.pc = "done" /\ r.code \in {400, 404}
         /\ CopiesIn(r, reqs') > CopiesIn(r, reqs) )
       => /\ orders' = orders /\ sessions' = sessions
          /\ r.orderId \notin OrderIds]_vars

\* The ids in the order list of session s.
AttachedOrders(s) == {sessions[s].orders[i] : i \in 1..Len(sessions[s].orders)}

\* Each id attached to a session stays attached.
AttachedOrdersKept ==
  \A s \in SessionIds :
    \A i \in 1..Len(sessions[s].orders) :
      \E j \in 1..Len(sessions'[s].orders) : sessions'[s].orders[j] = sessions[s].orders[i]

\* The order of every createOrder that has gone past its attach step is in
\* its session's list, and no list holds an id twice.
AttachedOnce ==
  /\ \A r \in InFlight :
       ( /\ r.op = "createOrder" /\ r.sessionId \in SessionIds
         /\ \/ r.pc = "notify"
            \/ r.pc = "done" /\ r.code = 201 )
       => r.orderId \in AttachedOrders(r.sessionId)
  /\ \A s \in SessionIds :
       Cardinality(AttachedOrders(s)) = Len(sessions[s].orders)

\* C23: createOrder requests naming the same session, interleaved in any way,
\* leave each new order id in the session's list exactly once and remove no
\* id attached before.
C23_ConcurrentAttach == []AttachedOnce /\ [][AttachedOrdersKept]_vars

\* Two createOrder requests for the same session are both past their attach
\* step while a third order was attached before them.
C23_Witness ==
  \E r1, r2 \in InFlight :
    /\ r1.op = "createOrder" /\ r2.op = "createOrder"
    /\ r1.pc = "notify" /\ r2.pc = "notify"
    /\ r1.sessionId \in SessionIds /\ r2.sessionId = r1.sessionId
    /\ r1.orderId # r2.orderId
    /\ Len(sessions[r1.sessionId].orders) = 3
    /\ {r1.orderId, r2.orderId} \subseteq AttachedOrders(r1.sessionId)

----------------------------------------------------------------------------
(* Kitchen sockets registering and leaving while orders are notified *)

KitchenOrders == 1

KitchenEvents == {"new_kitchen_order", "order_status_updated"}

NextKitchen ==
  \/ \E items \in CacheItems :
       Arrives(MaxInFlight) /\ CanCreateOrder(KitchenOrders)
       /\ createOrder_SaveOrder("U1", items, "Take Away", None, NoId)
  \/ \E r \in InFlight : createOrder_Notify(r)
  \/ \E r \in InFlight : createOrder_NotifyDelete(r)
  \/ \E o \in 1..KitchenOrders, st \in {"preparing", "cancelled"} :
       Arrives(MaxInFlight) /\ updateOrderStatus_Read(o, st)
  \/ \E r \in InFlight : updateOrderStatus_SaveOrder(r)
  \/ \E r \in InFlight : updateOrderStatus_Notify(r)
  \/ \E r \in InFlight : updateOrderStatus_NotifyDelete(r)
  \/ \E r \in InFlight : updateOrderStatus_Invalidate(r)
  \/ \E r \in InFlight : updateOrderStatus_InvalidateSession(r)
  \/ register_kitchen("K1")
  \/ CacheHit(KITCHEN_SOCKET_KEY) /\ cache[KITCHEN_SOCKET_KEY] = "K1"
     /\ register_kitchen("K2")
  \/ \E k \in KitchenSockets : Arrives(MaxInFlight) /\ disconnect_Read(k)
  \/ \E r \in InFlight : disconnect_Delete(r)
  \/ \E r \in InFlight : Respond(r)

SpecKitchen == Init /\ [][NextKitchen]_vars

\* The registration is one value under one key.
OneKitchenRegistered ==
  KITCHEN_SOCKET_KEY \in DOMAIN cache => cache[KITCHEN_SOCKET_KEY] \in KitchenSockets

\* A kitchen event emitted by a step goes to the socket registered then.
EmittedToRegistered ==
  \A e \in emitted' :
    (emitted' # emitted /\ e.event \in KitchenEvents)
      => /\ KITCHEN_SOCKET_KEY \in DOMAIN cache
         /\ e.to = cache[KITCHEN_SOCKET_KEY]

\* C24: the kitchen registration is a single socket id, the last one
\* registered, and every new_kitchen_order and order_status_updated is
\* emitted to that socket only.
C24_OneKitchenEndpoint == []OneKitchenRegistered /\ [][EmittedToRegistered]_vars

\* K2 has registered after K1 and a later status change was notified to K2.
C24_Witness ==
  /\ KITCHEN_SOCKET_KEY \in DOMAIN cache /\ cache[KITCHEN_SOCKET_KEY] = "K2"
  /\ \E e \in emitted :
       e.event = "order_status_updated" /\ e.to = "K2" /\ e.previousStatus = "preparing"

----------------------------------------------------------------------------
(* Status changes notified to a kitchen socket that stays registered *)

NotifiedOrders == 1

NextNotify ==
  \/ ~CacheHit(KITCHEN_SOCKET_KEY) /\ register_kitchen("K1")
  \/ \E items \in CacheItems :
       Arrives(MaxInFlight) /\ CanCreateOrder(NotifiedOrders)
       /\ CacheHit(KITCHEN_SOCKET_KEY)
       /\ createOrder_SaveOrder("U1", items, "Take Away", None, NoId)
  \/ \E r \in InFlight : createOrder_Notify(r)
  \/ \E r \in InFlight : createOrder_NotifyDelete(r)
  \/ \E o \in 1..NotifiedOrders, st \in {"confirmed", "preparing", "cancelled"} :
       Arrives(MaxInFlight) /\ updateOrderStatus_Read(o, st)
  \/ \E r \in InFlight : updateOrderStatus_SaveOrder(r)
  \/ \E r \in InFlight : updateOrderStatus_Notify(r)
  \/ \E r \in InFlight : updateOrderStatus_NotifyDelete(r)
  \/ \E r \in InFlight : updateOrderStatus_Invalidate(r)
  \/ \E r \in InFlight : updateOrderStatus_InvalidateSession(r)
  \/ \E r \in InFlight : Respond(r)

SpecNotify == Init /\ [][NextNotify]_vars

\* C25: with the kitchen socket registered throughout, once every
\* updateOrderStatus on an order has completed, the last order_status_updated
\* emitted for it carries the status committed last: the emissions follow the
\* order of the commits.
C25_EmittedInCommitOrder ==
  \A o \in OrderIds :
    NoWriteUnderWay(o)
      => \A e \in emitted :
           (e.event = "order_status_updated" /\ e.orderId = o)
             => e.status = orders[o].status

----------------------------------------------------------------------------
(* Transitions whose notification or invalidation fails after the commit *)

DegradedOrders == 1

NextDegraded ==
  \/ \E items \in CacheItems :
       Arrives(1) /\ CanCreateOrder(DegradedOrders)
       /\ createOrder_SaveOrder("U1", items, "Take Away", None, NoId)
  \/ \E r \in InFlight : createOrder_Notify(r)
  \/ \E r \in InFlight : createOrder_NotifyDelete(r)
  \/ \E o \in 1..DegradedOrders, st \in {"preparing", "cancelled"} :
       Arrives(1) /\ updateOrderStatus_Read(o, st)
  \/ \E r \in InFlight : updateOrderStatus_SaveOrder(r)
  \/ \E r \in InFlight : updateOrderStatus_Notify(r)
  \/ \E r \in InFlight : updateOrderStatus_NotifyDelete(r)
  \/ \E r \in InFlight : updateOrderStatus_Invalidate(r)
  \/ \E r \in InFlight : updateOrderStatus_InvalidateSession(r)
  \/ \E o \in 1..DegradedOrders, p \in {"paid", "pending"} :
       Arrives(1) /\ updatePaymentStatus_Read(o, p)
  \/ \E r \in InFlight : updatePaymentStatus_SaveOrder(r)
  \/ \E r \in InFlight : updatePaymentStatus_FindSession(r)
  \/ \E r \in InFlight : updatePaymentStatus_Invalidate(r)
  \/ \E o \in 1..DegradedOrders :
       Arrives(1) /\ CachedRead_Lookup("getOrderDetails", o, None, NoId, None)
  \/ \E r \in InFlight : CachedRead_ReadStore(r)
  \/ \E r \in InFlight : CachedRead_SetCache(r)
  \/ Quiescent /\ register_kitchen("K1")
  \/ RedisConnectionChange
  \/ \E r \in InFlight : Respond(r)

SpecDegraded == Init /\ [][NextDegraded]_vars

\* An answered status or payment change was answered 200 and is stored.
CommittedAndAnswered ==
  \A r \in InFlight :
    r.pc = "done" =>
      /\ (r.op = "updateOrderStatus" /\ r.prev # None /\ r.status \in OrderStatusEnum)
           => (r.code = 200 /\ orders[r.orderId].status = r.status)
      /\ (r.op = "updatePaymentStatus" /\ r.orderId \in OrderIds)
           => (r.code = 200 /\ orders[r.orderId].paymentStatus = r.status)

\* After its save, no step of the handler writes the order again.
CommitKept ==
  \A r \in InFlight :
    (r.op \in {"updateOrderStatus", "updatePaymentStatus"}
       /\ r.pc \notin {"saveOrder", "done"})
      => orders' = orders

----------------------------------------------------------------------------
(* Status graphs of sessions and tables *)

SessionEdges ==
  { <<"active", "payment_pending">>, <<"payment_pending", "closed">>,
    <<"active", "completed">>, <<"active", "closed">> }

\* C28: every change of a session's stored status follows one of the edges
\* active -> payment_pending, payment_pending -> closed, active -> completed,
\* active -> closed.
C28_SessionEdgesOnly ==
  [][\A s \in SessionIds :
       sessions'[s].status # sessions[s].status
         => <<sessions[s].status, sessions'[s].status>> \in SessionEdges]_vars

\* C29: a session whose stored status is closed keeps that status.
C29_ClosedIsTerminal ==
  [][\A s \in SessionIds :
       sessions[s].status = "closed" => sessions'[s].status = "closed"]_vars

TableEdges ==
  { <<"available", "occupied">>, <<"occupied", "available">>,
    <<"occupied", "cleaning">>, <<"cleaning", "available">> }

\* C30: every change of a table's stored status follows one of the edges
\* available -> occupied, occupied -> available, occupied -> cleaning,
\* cleaning -> available.
C30_TableEdgesOnly ==
  [][\A t \in Tables :
       tables'[t].status # tables[t].status
         => <<tables[t].status, tables'[t].status>> \in TableEdges]_vars

----------------------------------------------------------------------------
(* Concurrent payments of the orders of a billed session *)

PaySessions == 1
PayOrders == 2

\* Order o is attached to a session that waits for its payments.
InPaymentPendingSession(o) ==
  \E s \in SessionsWithOrder(o) : sessions[s].status = "payment_pending"

NextPayRace ==
  \/ Arrives(1) /\ CanCreateSession(PaySessions)
     /\ SocketStart_Validate("initiate_session", "T1", "U1")
  \/ \E r \in InFlight : SocketStart_CheckUser(r)
  \/ \E r \in InFlight : SocketStart_SaveSession(r)
  \/ \E r \in InFlight : SocketStart_SaveTable(r)
  \/ Arrives(1) /\ CanCreateSession(PaySessions) /\ startTableSession_Validate("T1")
  \/ \E r \in InFlight : startTableSession_SaveSession(r)
  \/ \E r \in InFlight : startTableSession_SaveTable(r)
  \/ \E items \in LifecycleItems, s \in SessionIds :
       Arrives(1) /\ CanCreateOrder(PayOrders) /\ sessions[s].status = "active"
       /\ createOrder_SaveOrder("U1", items, "Dine In", "T1", s)
  \/ \E r \in InFlight : createOrder_FindSession(r)
  \/ \E r \in InFlight : createOrder_PushOrder(r)
  \/ \E r \in InFlight : createOrder_Notify(r)
  \/ \E s \in 1..PaySessions : Arrives(1) /\ generateBillForSession_FindBill(s)
  \/ \E r \in InFlight : generateBillForSession_ReadSession(r)
  \/ \E r \in InFlight : generateBillForSession_ReadOrders(r)
  \/ \E r \in InFlight : generateBillForSession_SaveBill(r)
  \/ \E r \in InFlight : generateBillForSession_SaveSession(r)
  \/ \E o \in OrderIds :
       Arrives(MaxInFlight) /\ InPaymentPendingSession(o)
       /\ updatePaymentStatus_Read(o, "paid")
  \/ \E r \in InFlight : updatePaymentStatus_SaveOrder(r)
  \/ \E r \in InFlight : updatePaymentStatus_FindSession(r)
  \/ \E r \in InFlight : updatePaymentStatus_CountUnpaid(r)
  \/ \E r \in InFlight : updatePaymentStatus_SaveSession(r)
  \/ \E r \in InFlight : updatePaymentStatus_ReadTable(r)
  \/ \E r \in InFlight : updatePaymentStatus_SaveTable(r)
  \/ \E r \in InFlight : updatePaymentStatus_Invalidate(r)
  \/ \E r \in InFlight : Respond(r)

SpecPayRace == Init /\ [][NextPayRace]_vars

\* No updatePaymentStatus is under way.
PaymentsCompleted ==
  \A r \in InFlight : r.op = "updatePaymentStatus" => r.pc = "done"

\* C31: once the concurrent updatePaymentStatus(paid) requests on the orders
\* of a payment_pending session have all completed and every attached order
\* is paid, the session is closed and its table is cleaning with no current
\* session.
C31_ConcurrentPaymentsClose ==
  \A s \in SessionIds :
    (PaymentsCompleted /\ Len(sessions[s].orders) > 0 /\ AllOrdersPaid(s))
      => SessionClosedTableCleaning(s)

----------------------------------------------------------------------------
(* A bill generated while orders are placed into the session *)

BilledSessions == 1
BilledOrders == 2

NextBillOrders ==
  \/ Arrives(1) /\ CanCreateSession(BilledSessions)
     /\ SocketStart_Validate("initiate_session", "T1", "U1")
  \/ \E r \in InFlight : SocketStart_CheckUser(r)
  \/ \E r \in InFlight : SocketStart_SaveSession(r)
  \/ \E r \in InFlight : SocketStart_SaveTable(r)
  \/ \E items \in OrderItemChoices \ {<<>>}, s \in SessionIds :
       Arrives(MaxInFlight) /\ CanCreateOrder(BilledOrders)
       /\ createOrder_SaveOrder("U1", items, "Dine In", "T1", s)
  \/ \E r \in InFlight : createOrder_FindSession(r)
  \/ \E r \in InFlight : createOrder_PushOrder(r)
  \/ \E r \in InFlight : createOrder_Notify(r)
  \/ \E s \in 1..BilledSessions :
       Arrives(MaxInFlight) /\ generateBillForSession_FindBill(s)
  \/ \E r \in InFlight : generateBillForSession_ReadSession(r)
  \/ \E r \in InFlight : generateBillForSession_ReadOrders(r)
  \/ \E r \in InFlight : generateBillForSession_SaveBill(r)
  \/ \E r \in InFlight : generateBillForSession_SaveSession(r)
  \/ \E r \in InFlight : Respond(r)

SpecBillOrders == Init /\ [][NextBillOrders]_vars

\* C32: the step that saves a bill saves it with the sum of the totals of the
\* orders attached to its session at that moment.
C32_BillTotalAtSave ==
  [][Len(bills') > Len(bills)
       => LET b == bills'[Len(bills')]
          IN  b.total = OrdersTotal(sessions[b.tableSessionId].orders)]_vars

----------------------------------------------------------------------------
(* Sessions that have ended, their tables and their bills *)

\* Every handler that was started has answered.
AllAnswered == \A r \in InFlight : r.pc = "done"

EndedStatuses == {"closed", "completed"}

\* C33: once the handlers have answered, no table refers to a session that
\* has ended (closed or completed) as its current session, whichever field
\* the session keeps its table in.
C33_EndedSessionReleased ==
  AllAnswered =>
    \A s \in SessionIds : \A t \in Tables :
      sessions[s].status \in EndedStatuses => tables[t].currentSession # s

\* C38: every session that is payment_pending or closed has a bill.
C38_BilledWhenPendingOrClosed ==
  \A s \in SessionIds :
    sessions[s].status \in {"payment_pending", "closed"} => BillsOfSession(s) # {}

C38_Witness ==
  \E s \in SessionIds : sessions[s].status = "closed" /\ BillsOfSession(s) # {}

----------------------------------------------------------------------------
(* A table forced available, seated again, and the earlier bill settled *)

SettleSessions == 2

NextSettle ==
  \/ \E op \in SocketStartOps :
       Arrives(1) /\ CanCreateSession(SettleSessions)
       /\ SocketStart_Validate(op, "T1", "U1")
  \/ \E r \in InFlight : SocketStart_CheckUser(r)
  \/ \E r \in InFlight : SocketStart_SaveSession(r)
  \/ \E r \in InFlight : SocketStart_SaveTable(r)
  \/ \E s \in 1..SettleSessions : Arrives(1) /\ generateBillForSession_FindBill(s)
  \/ \E r \in InFlight : generateBillForSession_ReadSession(r)
  \/ \E r \in InFlight : generateBillForSession_ReadOrders(r)
  \/ \E r \in InFlight : generateBillForSession_SaveBill(r)
  \/ \E r \in InFlight : generateBillForSession_SaveSession(r)
  \/ Arrives(1) /\ updateTableStatus_Read("T1", "available")
  \/ \E r \in InFlight : updateTableStatus_EndSession(r)
  \/ \E r \in InFlight : updateTableStatus_SaveTable(r)
  \/ \E b \in 1..SettleSessions : Arrives(1) /\ updateBillPaymentStatus_Read(b, "paid")
  \/ \E r \in InFlight : updateBillPaymentStatus_SaveBill(r)
  \/ \E r \in InFlight : updateBillPaymentStatus_ReadSession(r)
  \/ \E r \in InFlight : updateBillPaymentStatus_SaveSession(r)
  \/ \E r \in InFlight : updateBillPaymentStatus_ReadTable(r)
  \/ \E r \in InFlight : updateBillPaymentStatus_SaveTable(r)
  \/ \E r \in InFlight : Respond(r)

SpecSettle == Init /\ [][NextSettle]_vars

\* C37: when no handler is under way, every active session is the current
\* session of its table and that table is occupied.
C37_ActiveSessionHeldByTable ==
  AllAnswered =>
    \A s \in SessionIds :
      sessions[s].status = "active"
        => /\ tables[TableOfSession(s)].currentSession = s
           /\ tables[TableOfSession(s)].status = "occupied"

----------------------------------------------------------------------------
(* The kitchen registration under a late disconnect *)

\* The socket registered as the kitchen in cache c, None when there is none.
RegisteredKitchen(c) ==
  IF KITCHEN_SOCKET_KEY \in DOMAIN c THEN c[KITCHEN_SOCKET_KEY] ELSE None

\* C36: the disconnect handler of a socket never removes the registration of
\* another socket: a step of the handler of socket A taken while socket B is
\* registered leaves B registered.
C36_DisconnectKeepsOtherRegistration ==
  [][\A r \in InFlight :
       (/\ r.op = "disconnect" /\ r.pc = "delete"
        /\ CopiesIn(r, reqs') < CopiesIn(r, reqs)
        /\ RegisteredKitchen(cache) \notin {None, r.socket})
         => RegisteredKitchen(cache') = RegisteredKitchen(cache)]_vars

----------------------------------------------------------------------------
(* The cached session view across session status changes *)

ViewedSessions == 1

NextSessionView ==
  \/ \E op \in SocketStartOps :
       Arrives(1) /\ CanCreateSession(ViewedSessions)
       /\ SocketStart_Validate(op, "T1", "U1")
  \/ \E r \in InFlight : SocketStart_CheckUser(r)
  \/ \E r \in InFlight : SocketStart_SaveSession(r)
  \/ \E r \in InFlight : SocketStart_SaveTable(r)
  \/ Arrives(1) /\ CanCreateSession(ViewedSessions) /\ startTableSession_Validate("T1")
  \/ \E r \in InFlight : startTableSession_SaveSession(r)
  \/ \E r \in InFlight : startTableSession_SaveTable(r)
  \/ \E s \in 1..ViewedSessions :
       Arrives(1) /\ CachedRead_Lookup("getOrdersBySession", NoId, None, s, None)
  \/ \E r \in InFlight : CachedRead_ReadStore(r)
  \/ \E r \in InFlight : CachedRead_SetCache(r)
  \/ \E s \in 1..ViewedSessions : Arrives(1) /\ generateBillForSession_FindBill(s)
  \/ \E r \in InFlight : generateBillForSession_ReadSession(r)
  \/ \E r \in InFlight : generateBillForSession_ReadOrders(r)
  \/ \E r \in InFlight : generateBillForSession_SaveBill(r)
  \/ \E r \in InFlight : generateBillForSession_SaveSession(r)
  \/ \E s \in 1..ViewedSessions : Arrives(1) /\ endSessionAndGenerateBill_ReadSession(s)
  \/ \E r \in InFlight : endSessionAndGenerateBill_FindBill(r)
  \/ \E r \in InFlight : endSessionAndGenerateBill_ReadOrders(r)
  \/ \E r \in InFlight : endSessionAndGenerateBill_SaveBill(r)
  \/ \E r \in InFlight : endSessionAndGenerateBill_SaveSession(r)
  \/ \E b \in 1..ViewedSessions : Arrives(1) /\ updateBillPaymentStatus_Read(b, "paid")
  \/ \E r \in InFlight : updateBillPaymentStatus_SaveBill(r)
  \/ \E r \in InFlight : updateBillPaymentStatus_ReadSession(r)
  \/ \E r \in InFlight : updateBillPaymentStatus_SaveSession(r)
  \/ \E r \in InFlight : updateBillPaymentStatus_ReadTable(r)
  \/ \E r \in InFlight : updateBillPaymentStatus_SaveTable(r)
  \/ \E s \in 1..ViewedSessions : Arrives(1) /\ end_session_ReadSession(s)
  \/ \E r \in InFlight : end_session_FindBill(r)
  \/ \E r \in InFlight : end_session_ReadOrders(r)
  \/ \E r \in InFlight : end_session_SaveBill(r)
  \/ \E r \in InFlight : end_session_SaveSession(r)
  \/ \E r \in InFlight : end_session_ReadTable(r)
  \/ \E r \in InFlight : end_session_SaveTable(r)
  \/ \E s \in 1..ViewedSessions : Arrives(1) /\ endTableSession_Read(s)
  \/ \E r \in InFlight : endTableSession_SaveSession(r)
  \/ \E r \in InFlight : endTableSession_ReadTable(r)
  \/ \E r \in InFlight : endTableSession_SaveTable(r)
  \/ Arrives(1) /\ updateTableStatus_Read("T1", "available")
  \/ \E r \in InFlight : updateTableStatus_EndSession(r)
  \/ \E r \in InFlight : updateTableStatus_SaveTable(r)
  \/ \E r \in InFlight : Respond(r)

SpecSessionView == Init /\ [][NextSessionView]_vars

\* C34: a getOrdersBySession that arrives when every other handler has
\* answered, and is answered 200, carries the status and the end time the
\* session has in the store.
C34_SessionViewCurrent ==
  [][\A r \in InFlight' :
       ( /\ BagCardinality(reqs') > BagCardinality(reqs)
         /\ CopiesIn(r, reqs') > CopiesIn(r, reqs)
         /\ AllAnswered
         /\ r.op = "getOrdersBySession" /\ r.pc = "done" /\ r.code = 200 )
       => /\ r.value.status = sessions[r.sessionId].status
          /\ r.value.endTime = sessions[r.sessionId].endTime]_vars

----------------------------------------------------------------------------
(* The cached order lists of a user, with and without a status filter *)

ListedOrders == 1

\* req.query.status of getOrdersByUser: absent, or the status to filter on.
ListFilters == {None, "pending", "preparing"}

NextUserLists ==
  \/ \E items \in CacheItems :
       Arrives(1) /\ CanCreateOrder(ListedOrders)
       /\ createOrder_SaveOrder("U1", items, "Take Away", None, NoId)
  \/ \E r \in InFlight : createOrder_Notify(r)
  \/ \E r \in InFlight : createOrder_NotifyDelete(r)
  \/ \E f \in ListFilters :
       Arrives(1) /\ CachedRead_Lookup("getOrdersByUser", NoId, "U1", NoId, f)
  \/ \E r \in InFlight : CachedRead_ReadStore(r)
  \/ \E r \in InFlight : CachedRead_SetCache(r)
  \/ \E o \in 1..ListedOrders, st \in {"preparing", "cancelled"} :
       Arrives(1) /\ updateOrderStatus_Read(o, st)
  \/ \E r \in InFlight : updateOrderStatus_SaveOrder(r)
  \/ \E r \in InFlight : updateOrderStatus_Notify(r)
  \/ \E r \in InFlight : updateOrderStatus_NotifyDelete(r)
  \/ \E r \in InFlight : updateOrderStatus_Invalidate(r)
  \/ \E r \in InFlight : updateOrderStatus_InvalidateSession(r)
  \/ Quiescent /\ register_kitchen("K1")
  \/ \E r \in InFlight : Respond(r)

SpecUserLists == Init /\ [][NextUserLists]_vars

\* The keys under which getOrdersByUser caches the orders of user u.
UserListKeys(u) ==
  {UserOrdersKey(u)} \cup {UserOrdersKey(u) \o ":status:" \o st : st \in OrderStatusEnum}

\* C35: once an updateOrderStatus that changed the status of an order of user
\* U has answered, no cached order list of U, filtered by status or not, holds
\* that order with another status than the stored one.
C35_UserListsDropped ==
  \A r \in InFlight :
    (r.op = "updateOrderStatus" /\ r.pc = "done" /\ r.code = 200 /\ ChangesStatus(r)
       /\ AllAnswered)
      => \A k \in UserListKeys(orders[r.orderId].user) \cap DOMAIN cache :
           \A v \in cache[k].orders :
             v.id = r.orderId => v.status = orders[r.orderId].status

----------------------------------------------------------------------------
(* Order details read after a cache outage *)

\* C39: with the cache store reachable, a getOrderDetails that arrives when
\* every other handler has answered is answered with the stored status of the
\* order, also when the order changed status while the store was unreachable.
C39_CurrentAfterOutage ==
  [][\A r \in InFlight' :
       ( /\ BagCardinality(reqs') > BagCardinality(reqs)
         /\ CopiesIn(r, reqs') > CopiesIn(r, reqs)
         /\ AllAnswered /\ redisReady
         /\ r.op = "getOrderDetails" /\ r.pc = "done" /\ r.code = 200 )
       => \A v \in r.value.orders : v.status = orders[r.orderId].status]_vars

====
